---- MODULE Spec2Model ----
(***************************************************************************)
(* A model of WAVM's JIT object loader (Lib/LLVMJIT/LLVMJITLoad.cpp) and   *)
(* of its LEB128 / byte stream serialization (Include/Core/Serialization.h)*)
(*                                                                         *)
(* Integers of the C++ code are modelled as bit vectors of the width of    *)
(* their type (a function from bit index to 0 or 1), so that shifts,       *)
(* truncation and sign extension behave as in the 32 and 64 bit types.     *)
(***************************************************************************)
EXTENDS Integers, Sequences, FiniteSets, TLC

VARIABLES
    \* ---- the loader (LLVMJITLoad.cpp) ----
    tpc,        \* tpc[t]: the place thread t has reached in the call it is executing
    op,         \* op[t]: that call: its kind, module, address, selected module, result
    mutex,      \* addressToModuleMapMutex: the thread that holds it, or NoThread
    addressToModuleMap,  \* the global index: image end address -> module
    modules,    \* modules[m]: the LoadedModule m and its ModuleMemoryManager
    reserved,   \* the pages Platform::allocateVirtualPages has handed out so far
    raced,      \* threads whose index operation in progress overlapped another one
    crashed,    \* the process was terminated (Errors::fatal, or a crash)
    \* ---- serialization (Serialization.h) ----
    cpc,        \* position of the codec client: "idle", "start", "input", "encoded", ...
    codec,      \* the instantiation of serializeVarInt<Value,maxBits>(stream,value,min,max)
    val,        \* the value handed to the encoder (a bit vector of codec.valueBits bits)
    out,        \* the ArrayOutputStream: [bytes, next]  (end = Len(bytes))
    outBefore,  \* the output stream as it was when the encoder was entered
    inp,        \* the MemoryInputStream: [data, next]  (end = Len(data))
    encRes,     \* outcome of the last encode
    decRes,     \* outcome of the last decode
    \* ---- one image: a ModuleMemoryManager and the platform under it ----
    ipc,            \* the place the construction / destruction of the image has reached
    useWindowsSEH,  \* USE_WINDOWS_SEH of the build
    memoryManager,  \* the fields of the ModuleMemoryManager
    pageAccess,     \* the platform's pages: "free", "readWrite", "readOnly", "execute", "decommitted"
    ehFrames,       \* the unwind ranges handed to Platform::registerEHFrames / deregisterEHFrames
    icall,          \* the last call made on the memory manager: its name, arguments, result
    allocations,    \* the byte ranges the memory manager has returned, in the order of the calls
    \* ---- the client of the byte streams ----
    written,        \* the bytes the client has handed to the output stream so far
    scall,          \* the last call made on a stream: its name, size, cursor before, result
    extensions,     \* the number of times the output stream has extended its buffer
    \* ---- one call of loadModule ----
    bpc,            \* where the call is: "off", "bind", "load", "collect", "done", "fatal", "undefined"
    bind            \* the arguments of the call, importedSymbolMap, jitModule, outFunctionDefs

loaderVars == <<tpc, op, mutex, addressToModuleMap, modules, reserved, raced, crashed>>

codecVars == <<cpc, codec, val, out, outBefore, inp, encRes, decRes>>

imageVars == <<ipc, useWindowsSEH, memoryManager, pageAccess, ehFrames, icall, allocations>>

vars == <<tpc, op, mutex, addressToModuleMap, modules, reserved, raced, crashed,
          cpc, codec, val, out, outBefore, inp, encRes, decRes,
          ipc, useWindowsSEH, memoryManager, pageAccess, ehFrames, icall, allocations,
          written, scall, extensions, bpc, bind>>

streamVars == <<written, scall, extensions>>
bindVars == <<bpc, bind>>

\* what the actions of each part of the model leave alone
notLoaderVars == <<codecVars, imageVars, streamVars, bindVars>>
notCodecVars == <<loaderVars, imageVars, streamVars, bindVars>>
notImageVars == <<loaderVars, codecVars, streamVars, bindVars>>
notStreamVars == <<loaderVars, imageVars, bindVars, codec, val, outBefore, encRes, decRes>>
notBindVars == <<loaderVars, imageVars, codecVars, streamVars>>

(***************************************************************************)
(* Bounds of the model.                                                    *)
(***************************************************************************)
\* Width of the free bit window of the sampled 32 and 64 bit values.
WindowBits == 2
\* Number of raw bytes that may be in the output stream before a varint.
MaxPrefix == 1
\* Platform::getPageSizeLog2(), scaled down: pages of 4 bytes.
PageSizeLog2 == 2
\* Number of pages of the address space the platform hands out (page 0 is never
\* handed out: allocateVirtualPages returns null only on failure).
AddressSpacePages == 3
\* Number of modules loaded during a run.
MaxModules == 2
\* Number of threads of the multi-threaded specification.
NumThreads == 2

\* the calls of getJITFunctionByAddress that may be in progress at once
MaxConcurrentLookups == 1

\* Platform::getPageSizeLog2() under the single image: pages of 32 bytes, not
\* smaller than the alignments and the trampoline of the code.
ImagePageSizeLog2 == 5
\* Number of pages of the address space under the single image.
ImageSpacePages == 6
\* Number of unwind sections the object loader reports for one object.
MaxEHFrameSections == 2
\* Number of sections the object loader allocates for one object.
MaxSections == 2
\* Number of bytes written to an output stream, and of bytes of an input stream.
MaxStreamBytes == 80
MaxInputBytes == 3
\* Number of bindings of each kind passed to loadModule.
MaxBindings == 2

(***************************************************************************)
(* Fixed width integers.                                                   *)
(***************************************************************************)
Bit == {0, 1}

\* 2^n for n < 31
PowersOf2 ==
    << 1, 2, 4, 8, 16, 32, 64, 128, 256, 512, 1024, 2048, 4096, 8192, 16384, 32768,
       65536, 131072, 262144, 524288, 1048576, 2097152, 4194304, 8388608, 16777216,
       33554432, 67108864, 134217728, 268435456, 536870912, 1073741824 >>

Pow2(n) == PowersOf2[n + 1]

Max(a, b) == IF a >= b THEN a ELSE b

\* Value(n) for a non-negative int n < 2^31, in a type of w bits (truncating).
BVofNat(n, w) == [i \in 0..(w - 1) |-> IF i < 31 THEN (n \div Pow2(i)) % 2 ELSE 0]

BVNot(v) == [i \in DOMAIN v |-> 1 - v[i]]

BVOr(a, b) == [i \in DOMAIN a |-> IF a[i] = 1 \/ b[i] = 1 THEN 1 ELSE 0]

BVIsZero(v) == \A i \in DOMAIN v : v[i] = 0

BVIsAllOnes(v) == \A i \in DOMAIN v : v[i] = 1

\* value < 0 of a signed type of w bits
BVNegative(v, w) == v[w - 1] = 1

\* value & 127
BVLow7(v, w) ==
    LET b(i) == IF i < w THEN v[i] ELSE 0
    IN  b(0) + 2 * b(1) + 4 * b(2) + 8 * b(3) + 16 * b(4) + 32 * b(5) + 64 * b(6)

\* value >> s : arithmetic for a signed type, logical for an unsigned one
BVShr(v, w, signed, s) ==
    [i \in 0..(w - 1) |-> IF i + s < w THEN v[i + s] ELSE IF signed THEN v[w - 1] ELSE 0]

\* value << s, truncated to w bits
BVShl(v, w, s) == [i \in 0..(w - 1) |-> IF i >= s THEN v[i - s] ELSE 0]

\* a < b in a type of w bits
BVLess(a, b, w, signed) ==
    LET key(x, i) == IF signed /\ i = w - 1 THEN 1 - x[i] ELSE x[i]
    IN  \E i \in 0..(w - 1) :
            /\ key(a, i) < key(b, i)
            /\ \A j \in (i + 1)..(w - 1) : a[j] = b[j]

(***************************************************************************)
(* The instantiations of serializeVarInt.  The six helpers bind maxBits    *)
(* and the range; Value is the caller's type.                              *)
(***************************************************************************)
\* the low n bits set: 2^n - 1
BVLowOnes(n, w) == [i \in 0..(w - 1) |-> IF i < n THEN 1 ELSE 0]

\* the bits from n up set: -(2^n) in a signed type
BVHighOnes(n, w) == [i \in 0..(w - 1) |-> IF i >= n THEN 1 ELSE 0]

MkCodec(nm, vb, sg, mb, lo, hi) ==
    [name |-> nm, valueBits |-> vb, signed |-> sg, maxBits |-> mb, minValue |-> lo, maxValue |-> hi]

serializeVarUInt1(w) == MkCodec("varuint1", w, FALSE, 1, BVofNat(0, w), BVofNat(1, w))
serializeVarUInt7(w) == MkCodec("varuint7", w, FALSE, 7, BVofNat(0, w), BVofNat(127, w))
serializeVarUInt32(w) == MkCodec("varuint32", w, FALSE, 32, BVofNat(0, w), BVLowOnes(32, w))
serializeVarUInt64(w) == MkCodec("varuint64", w, FALSE, 64, BVofNat(0, w), BVLowOnes(64, w))
serializeVarInt32(w) == MkCodec("varint32", w, TRUE, 32, BVHighOnes(31, w), BVLowOnes(31, w))
serializeVarInt64(w) == MkCodec("varint64", w, TRUE, 64, BVHighOnes(63, w), BVLowOnes(63, w))

NamedCodecs ==
    { serializeVarUInt1(8), serializeVarUInt7(8),
      serializeVarUInt32(32), serializeVarUInt32(64), serializeVarUInt64(64),
      serializeVarInt32(32), serializeVarInt64(64) }

\* Direct instantiations of the template with a range narrower than maxBits.
GenericCodecs ==
    { MkCodec("generic", 8, FALSE, 7, BVofNat(1, 8), BVofNat(100, 8)),
      MkCodec("generic", 32, TRUE, 32, BVNot(BVofNat(999, 32)), BVofNat(1000, 32)) }

Codecs == NamedCodecs \cup GenericCodecs

(***************************************************************************)
(* Byte streams.                                                           *)
(***************************************************************************)
\* OutputStream(): next(nullptr), end(nullptr), over an empty vector
NewArrayOutputStream == [bytes |-> <<>>, next |-> 0]

\* std::vector::resize: the old elements are kept, new ones are zero
\* a resize that keeps none of the elements
ResizeDiscarding(bytes, n) == [i \in 1..n |-> 0]

Resize(bytes, n) == [i \in 1..n |-> IF i <= Len(bytes) THEN bytes[i] ELSE 0]

\* ArrayOutputStream::extendBuffer
\* an extension to exactly the bytes needed
extendBufferExactly(s, numBytes) ==
    [bytes |-> Resize(s.bytes, s.next + numBytes), next |-> s.next]

extendBuffer(s, numBytes) ==
    LET nextIndex == s.next
    IN  [bytes |-> Resize(s.bytes, Max(nextIndex + numBytes, (Len(s.bytes) * 7) \div 5 + 32)),
         next |-> nextIndex]

\* OutputStream::advance: the stream after the call; the returned pointer is
\* the cursor before the call (AdvanceData).
OutAdvance(s, numBytes) ==
    LET t == IF s.next + numBytes > Len(s.bytes) THEN extendBuffer(s, numBytes) ELSE s
    IN  [t EXCEPT !.next = t.next + numBytes]

AdvanceData(s) == s.next

\* *stream.advance(1) = byte
WriteByte(s, byte) ==
    LET t == OutAdvance(s, 1)
    IN  [t EXCEPT !.bytes[AdvanceData(s) + 1] = byte]

\* ArrayOutputStream::getBytes: the prefix [bytes.data(), next)
getBytes(s) == SubSeq(Resize(s.bytes, s.next), 1, s.next)

\* MemoryInputStream(begin, numBytes)
MemoryInputStream(data) == [data |-> data, next |-> 0]

\* a stream that never runs out of data
InAlwaysHasData(s, numBytes) == TRUE

\* InputStream::advance / MemoryInputStream::getMoreData
InHasData(s, numBytes) == s.next + numBytes <= Len(s.data)

InAdvance(s, numBytes) == [s EXCEPT !.next = s.next + numBytes]

(***************************************************************************)
(* serializeVarInt(OutputStream&, ...): the encoder.                       *)
(***************************************************************************)
ErrNone == "none"
ErrEndOfStream == "expected data but found end of stream"
ErrInvalidFinalByte == "Invalid LEB encoding: invalid final byte"
ErrOutOfRange == "out-of-range value"

\* mutant: only the upper bound is checked
OutOfRangeAboveOnly(c, value) == BVLess(c.maxValue, value, c.valueBits, c.signed)

OutOfRange(c, value) ==
    \/ BVLess(value, c.minValue, c.valueBits, c.signed)
    \/ BVLess(c.maxValue, value, c.valueBits, c.signed)

\* mutant: the sign bit of the last group is not looked at
EncodeMoreIgnoringSign(c, value, outputByte) ==
    IF c.signed THEN ~BVIsZero(value) /\ ~BVIsAllOnes(value) ELSE ~BVIsZero(value)

\* the condition that another byte follows, from the value left after the shift
EncodeMore(c, value, outputByte) ==
    IF c.signed
    THEN \/ (~BVIsZero(value) /\ ~BVIsAllOnes(value))
         \/ (~BVNegative(value, c.valueBits) /\ (outputByte \div 64) % 2 = 1)
         \/ (BVNegative(value, c.valueBits) /\ (outputByte \div 64) % 2 = 0)
    ELSE ~BVIsZero(value)

RECURSIVE EncodeLoop(_, _, _)
EncodeLoop(c, s, value) ==
    LET outputByte == BVLow7(value, c.valueBits)
        shifted == BVShr(value, c.valueBits, c.signed, 7)
        more == EncodeMore(c, shifted, outputByte)
        t == WriteByte(s, IF more THEN outputByte + 128 ELSE outputByte)
    IN  IF more THEN EncodeLoop(c, t, shifted) ELSE t

SerializeVarIntOut(c, s, inValue) ==
    IF OutOfRange(c, inValue)
    THEN [error |-> ErrOutOfRange, stream |-> s,
          lo |-> c.minValue, value |-> inValue, hi |-> c.maxValue]
    ELSE [error |-> ErrNone, stream |-> EncodeLoop(c, s, inValue),
          lo |-> c.minValue, value |-> inValue, hi |-> c.maxValue]

(***************************************************************************)
(* serializeVarInt(InputStream&, ...): the decoder.                        *)
(***************************************************************************)
MaxBytes(c) == (c.maxBits + 6) \div 7

\* The read loop: up to maxBytes bytes, stopping after the first byte without
\* the continuation bit; advance throws when the stream is exhausted.
RECURSIVE ReadLoop(_, _, _)
ReadLoop(c, s, bytes) ==
    IF Len(bytes) >= MaxBytes(c) THEN [eos |-> FALSE, bytes |-> bytes, stream |-> s]
    ELSE IF ~InHasData(s, 1) THEN [eos |-> TRUE, bytes |-> bytes, stream |-> s]
    ELSE LET byte == s.data[s.next + 1]
             t == InAdvance(s, 1)
         IN  IF byte \div 128 = 0
             THEN [eos |-> FALSE, bytes |-> Append(bytes, byte), stream |-> t]
             ELSE ReadLoop(c, t, Append(bytes, byte))

\* mutant: the buffer is not zeroed
BufferByteNotZeroed(bytes, i) == IF i < Len(bytes) THEN bytes[i + 1] ELSE 255

\* uint8 bytes[maxBytes] = {0}: the bytes not read are zero
BufferByte(bytes, i) == IF i < Len(bytes) THEN bytes[i + 1] ELSE 0

NumUsedBitsInHighestByte(c) == c.maxBits - (MaxBytes(c) - 1) * 7

HighestByteUsedBitmask(c) == (Pow2(NumUsedBitsInHighestByte(c)) % 256) - 1

\* uint8(~uint8(used) & ~uint8(0x80))
HighestByteSignedBitmask(c) == 127 - HighestByteUsedBitmask(c)

\* byte & ~highestByteUsedBitmask
UnusedBits(c, byte) == byte - (byte % (HighestByteUsedBitmask(c) + 1))

InvalidFinalByte(c, bytes) ==
    LET high == UnusedBits(c, BufferByte(bytes, MaxBytes(c) - 1))
    IN  /\ high # 0
        /\ (high # HighestByteSignedBitmask(c) \/ ~c.signed)

\* value |= Value(bytes[byteIndex] & ~0x80) << (byteIndex * 7), for all maxBytes
RECURSIVE CombineGroups(_, _, _, _)
CombineGroups(c, bytes, byteIndex, value) ==
    IF byteIndex >= MaxBytes(c) THEN value
    ELSE CombineGroups(c, bytes, byteIndex + 1,
            BVOr(value, BVShl(BVofNat(BufferByte(bytes, byteIndex) % 128, c.valueBits),
                              c.valueBits, byteIndex * 7)))

\* mutant: the shift back is a logical one
SignExtendLogical(c, value, numBytes) ==
    LET signExtendShift == c.valueBits - 7 * numBytes
    IN  IF c.signed /\ signExtendShift > 0
        THEN BVShr(BVShl(value, c.valueBits, signExtendShift), c.valueBits, FALSE, signExtendShift)
        ELSE value

\* value = (value << signExtendShift) >> signExtendShift
SignExtend(c, value, numBytes) ==
    LET signExtendShift == c.valueBits - 7 * numBytes
    IN  IF c.signed /\ signExtendShift > 0
        THEN BVShr(BVShl(value, c.valueBits, signExtendShift), c.valueBits, TRUE, signExtendShift)
        ELSE value

SerializeVarIntIn(c, s) ==
    LET rd == ReadLoop(c, s, <<>>)
        value == SignExtend(c, CombineGroups(c, rd.bytes, 0, BVofNat(0, c.valueBits)),
                            Len(rd.bytes))
        res(e, v) == [error |-> e, stream |-> rd.stream,
                      lo |-> c.minValue, value |-> v, hi |-> c.maxValue]
    IN  IF rd.eos THEN res(ErrEndOfStream, BVofNat(0, c.valueBits))
        ELSE IF InvalidFinalByte(c, rd.bytes) THEN res(ErrInvalidFinalByte, BVofNat(0, c.valueBits))
        ELSE IF OutOfRange(c, value) THEN res(ErrOutOfRange, value)
        ELSE res(ErrNone, value)

(***************************************************************************)
(* The loader: images, loaded modules and the global address index.        *)
(***************************************************************************)
NoThread == 0
NoModule == 0

PageSize == Pow2(PageSizeLog2)

\* one address past the last page the platform hands out
AddressLimit == (AddressSpacePages + 1) * PageSize

ModuleIds == 1..MaxModules

\* std::map: a function from its keys; emplace keeps an entry already there
EmptyMap == [k \in {} |-> 0]

MapEmplace(map, key, value) ==
    [k \in DOMAIN map \cup {key} |-> IF k \in DOMAIN map THEN map[k] ELSE value]

\* an erase that leaves the entry in the map
MapEraseNothing(map, key) == map

MapErase(map, key) == [k \in DOMAIN map \ {key} |-> map[k]]

\* std::map::upper_bound: the first key strictly greater than x, or MapEnd
MapEnd == -1

MapUpperBound(map, x) ==
    LET above == {k \in DOMAIN map : k > x}
    IN  IF above = {} THEN MapEnd ELSE CHOOSE k \in above : \A j \in above : k <= j

\* every map that holds some of the entries of map
SubMaps(map) == { [k \in d |-> map[k]] : d \in SUBSET DOMAIN map }

\* a shift that rounds down
shrAndRoundDown(value, shift) == value \div Pow2(shift)

\* ModuleMemoryManager::shrAndRoundUp
shrAndRoundUp(value, shift) == (value + Pow2(shift) - 1) \div Pow2(shift)

(***************************************************************************)
(* The objects handed to the loader.  An object gives the bytes of its     *)
(* code, read-only and read-write sections and its function symbols, in    *)
(* the order llvm::object::computeSymbolSizes returns them (the order of   *)
(* the symbol table), each with its address in the code section and its    *)
(* size.                                                                   *)
(***************************************************************************)
Sym(nm, a, n) == [name |-> nm, address |-> a, size |-> n]

MkObject(code, ro, rw, syms, imports) ==
    [numCodeBytes |-> code, numReadOnlyBytes |-> ro, numReadWriteBytes |-> rw,
     symbols |-> syms, imports |-> imports]

Objects ==
    { \* no section at all: an image of zero pages
      MkObject(0, 0, 0, <<>>, {}),
      \* one function and a read-write data symbol; calls an imported function
      MkObject(3, 0, 4, <<Sym("functionDef0", 0, 3)>>, {"functionImport0"}),
      \* two adjacent functions that fill the image; calls a runtime helper
      MkObject(4, 0, 0, <<Sym("functionDef0", 0, 2), Sym("functionDef1", 2, 2)>>,
               {"wavmIntrinsicTrap"}),
      \* two functions with bytes of the image around them
      MkObject(4, 1, 0, <<Sym("functionDef1", 3, 1), Sym("functionDef0", 1, 1)>>, {}),
      \* two adjacent functions and an empty function at the end of the code,
      \* which the symbol table lists before the function that ends there
      MkObject(4, 0, 0, <<Sym("functionDef0", 0, 2), Sym("functionDef2", 4, 0),
                          Sym("functionDef1", 2, 2)>>, {}),
      \* a function that calls an import nobody binds
      MkObject(4, 0, 0, <<Sym("functionDef0", 0, 4)>>,
               {"functionImport0", "functionImport7"}) }

(***************************************************************************)
(* Symbol resolution.  A symbol value of 0 is a symbol that was not        *)
(* resolved.                                                               *)
(***************************************************************************)
\* the table loadModule builds for its caller's imports
ImportedSymbolMap == [name \in {"functionImport0"} |-> 101]

\* resolveJITImport: the built-in runtime helpers
RuntimeHelpers == [name \in {"wavmIntrinsicTrap"} |-> 201]

resolveJITImport(name) ==
    IF name \in DOMAIN RuntimeHelpers THEN RuntimeHelpers[name] ELSE 0

\* a resolver that asks the runtime helpers first
findSymbolHelpersFirst(importedSymbolMap, name) ==
    IF name \in DOMAIN RuntimeHelpers THEN RuntimeHelpers[name]
    ELSE IF name \in DOMAIN importedSymbolMap THEN importedSymbolMap[name]
    ELSE 0

\* SymbolResolver::findSymbol
findSymbol(importedSymbolMap, name) ==
    IF name \notin DOMAIN importedSymbolMap THEN resolveJITImport(name)
    ELSE importedSymbolMap[name]

\* a loader that reports no error
LoaderNeverHasError(obj, importedSymbolMap) == FALSE

\* loader.hasError() after loadObject and finalizeWithMemoryManagerLocking:
\* some symbol the object refers to was not resolved
LoaderHasError(obj, importedSymbolMap) ==
    \E name \in obj.imports : findSymbol(importedSymbolMap, name) = 0

(***************************************************************************)
(* ModuleMemoryManager::reserveAllocationSpace and the platform.           *)
(***************************************************************************)
NumImagePages(obj) ==
    shrAndRoundUp(obj.numCodeBytes, PageSizeLog2)
        + shrAndRoundUp(obj.numReadOnlyBytes, PageSizeLog2)
        + shrAndRoundUp(obj.numReadWriteBytes, PageSizeLog2)

\* Platform::allocateVirtualPages(n): the base page of any run of n pages none
\* of which was handed out before (a reservation is never released)
FreeBasePages(n) ==
    { p \in 1..(AddressSpacePages - n + 1) : \A q \in p..(p + n - 1) : q \notin reserved }

\* getNumImageBytes()
getNumImageBytes(md) == md.numAllocatedImagePages * PageSize

\* the key of a module in addressToModuleMap
ImageEnd(md) == md.imageBaseAddress + getNumImageBytes(md)

(***************************************************************************)
(* LoadedModule::LoadedModule, the loop over the function symbols.         *)
(***************************************************************************)
JITFunction(nm, base, n) == [name |-> nm, baseAddress |-> base, numBytes |-> n]

\* functions.push_back(...); addressToFunctionMap.emplace(base + numBytes, ...)
RECURSIVE EnumerateFunctions(_, _, _, _)
EnumerateFunctions(symbols, loadAddress, functions, addressMap) ==
    IF symbols = <<>> THEN [functions |-> functions, addressToFunctionMap |-> addressMap]
    ELSE LET symbol == Head(symbols)
             loadedAddress == symbol.address + loadAddress
             jitFunction == JITFunction(symbol.name, loadedAddress, symbol.size)
         IN  EnumerateFunctions(Tail(symbols), loadAddress,
                Append(functions, jitFunction),
                MapEmplace(addressMap, jitFunction.baseAddress + jitFunction.numBytes,
                           Len(functions) + 1))

UnbornModule ==
    [status |-> "unborn", imageBaseAddress |-> 0, numAllocatedImagePages |-> 0,
     committed |-> FALSE, functions |-> <<>>, addressToFunctionMap |-> EmptyMap,
     imports |-> {}]

\* the module as the constructor has built it when it reaches the emplace
ConstructedModule(obj, basePage) ==
    LET imageBase == basePage * PageSize
        fns == EnumerateFunctions(obj.symbols, imageBase, <<>>, EmptyMap)
    IN  [status |-> "loading", imageBaseAddress |-> imageBase,
         numAllocatedImagePages |-> NumImagePages(obj),
         committed |-> NumImagePages(obj) > 0,
         functions |-> fns.functions, addressToFunctionMap |-> fns.addressToFunctionMap,
         imports |-> obj.imports]

\* the module as the constructor leaves it at Errors::fatalf("RuntimeDyld
\* failed"): the image is reserved and committed, no function is enumerated
FailedModule(obj, basePage) ==
    [status |-> "failed", imageBaseAddress |-> basePage * PageSize,
     numAllocatedImagePages |-> NumImagePages(obj),
     committed |-> NumImagePages(obj) > 0,
     functions |-> <<>>, addressToFunctionMap |-> EmptyMap,
     imports |-> obj.imports]

(***************************************************************************)
(* getJITFunctionByAddress.                                                *)
(***************************************************************************)
\* a JITFunction*: function f of module m; nullptr is NoFunction
FunctionRef(m, f) == [m |-> m, f |-> f]
NoFunction == FunctionRef(NoModule, 0)
\* a pointer read from memory that was freed
DanglingFunction(m) == FunctionRef(m, 0)

\* lines 568-571: the module selected in the global index, or NoModule
SelectModule(address) ==
    LET moduleIt == MapUpperBound(addressToModuleMap, address)
    IN  IF moduleIt = MapEnd THEN NoModule ELSE addressToModuleMap[moduleIt]

\* lines 574-579: the function selected in module m
SelectFunction(m, address) ==
    LET map == modules[m].addressToFunctionMap
        functionIt == MapUpperBound(map, address)
    IN  IF functionIt = MapEnd THEN NoFunction
        ELSE LET function == modules[m].functions[map[functionIt]]
             IN  IF address >= function.baseAddress
                    /\ address < function.baseAddress + function.numBytes
                 THEN FunctionRef(m, map[functionIt])
                 ELSE NoFunction

\* the whole call, when nothing runs beside it
getJITFunctionByAddress(address) ==
    LET jitModule == SelectModule(address)
    IN  IF jitModule = NoModule THEN NoFunction ELSE SelectFunction(jitModule, address)

(***************************************************************************)
(* The threads.  tpc[t] is "idle" between calls; inside a call it names    *)
(* the statement the thread executes next:                                 *)
(*   "insert"          addressToModuleMap.emplace(...)         (line 451)  *)
(*   "erase"           addressToModuleMap.erase(find(...))     (line 466)  *)
(*   "destroyMembers"  the members of LoadedModule are destroyed           *)
(*   "search"          addressToModuleMap.upper_bound(address) (line 569)  *)
(*   "readMaps"        jitModule->addressToFunctionMap...      (line 574)  *)
(*   "return"          the call hands its result to the caller             *)
(***************************************************************************)
Threads == DOMAIN tpc

\* the statements that read or write addressToModuleMap
IndexAccess == {"insert", "erase", "search"}

IdleOp == [m |-> NoModule, address |-> 0, result |-> NoFunction]

\* the threads that are inside an operation on the index beside thread t
Overlapping(t) == { u \in Threads \ {t} : tpc[u] \in IndexAccess }

\* thread t starts an operation on the index: it overlaps the ones in progress
EnterIndex(t) == IF Overlapping(t) = {} THEN raced ELSE raced \cup Overlapping(t) \cup {t}

LoaderInit(numThreads) ==
    /\ tpc = [t \in 1..numThreads |-> "idle"]
    /\ op = [t \in 1..numThreads |-> IdleOp]
    /\ mutex = NoThread
    /\ addressToModuleMap = EmptyMap
    /\ modules = [m \in ModuleIds |-> UnbornModule]
    /\ reserved = {}
    /\ raced = {}
    /\ crashed = FALSE

\* LoadedModule::LoadedModule up to the end of the loop over the symbols: the
\* object is loaded into freshly reserved pages and its functions are entered
\* in the module's own maps.  A loader error ends the process (Errors::fatalf).
LoadConstruct(t) ==
    /\ ~crashed
    /\ tpc[t] = "idle"
    /\ \E m \in ModuleIds, obj \in Objects :
        /\ modules[m].status = "unborn"
        /\ \A k \in ModuleIds : k < m => modules[k].status # "unborn"
        /\ \E basePage \in (IF NumImagePages(obj) = 0 THEN {0}
                            ELSE FreeBasePages(NumImagePages(obj))) :
            /\ modules' = [modules EXCEPT ![m] =
                    IF LoaderHasError(obj, ImportedSymbolMap)
                    THEN FailedModule(obj, basePage)
                    ELSE ConstructedModule(obj, basePage)]
            /\ reserved' = reserved \cup
                    { basePage + i : i \in 0..(NumImagePages(obj) - 1) }
        /\ op' = [op EXCEPT ![t] = [IdleOp EXCEPT !.m = m]]
        /\ crashed' = LoaderHasError(obj, ImportedSymbolMap)
        /\ tpc' = [tpc EXCEPT ![t] =
                IF LoaderHasError(obj, ImportedSymbolMap) THEN "fatal" ELSE "insert"]
        /\ raced' = IF LoaderHasError(obj, ImportedSymbolMap) THEN raced ELSE EnterIndex(t)
    /\ UNCHANGED <<mutex, addressToModuleMap>>
    /\ UNCHANGED notLoaderVars

\* what an operation on the index leaves behind: the map it computes, or,
\* when it ran while another thread used the map, any part of it or a crash
IndexOutcomes(t, map) ==
    IF t \in raced
    THEN { [index |-> i, crash |-> c] : i \in SubMaps(map), c \in BOOLEAN }
    ELSE { [index |-> map, crash |-> FALSE] }

\* addressToModuleMap.emplace(imageBase + numImageBytes, this): no lock is
\* taken.  The constructor returns and loadModule hands out the module.
LoadInsert(t) ==
    /\ ~crashed
    /\ tpc[t] = "insert"
    /\ LET m == op[t].m
       IN  /\ \E o \in IndexOutcomes(t, MapEmplace(addressToModuleMap, ImageEnd(modules[m]), m)) :
                /\ addressToModuleMap' = o.index
                /\ crashed' = o.crash
           /\ modules' = [modules EXCEPT ![m].status = "loaded"]
    /\ tpc' = [tpc EXCEPT ![t] = "idle"]
    /\ op' = [op EXCEPT ![t] = IdleOp]
    /\ raced' = raced \ {t}
    /\ UNCHANGED <<mutex, reserved>>
    /\ UNCHANGED notLoaderVars

\* unloadModule(loadedModule): delete runs ~LoadedModule, which takes the lock
unloadModule(t, m) ==
    /\ ~crashed
    /\ tpc[t] = "idle"
    /\ modules[m].status = "loaded"
    /\ mutex = NoThread
    /\ mutex' = t
    /\ modules' = [modules EXCEPT ![m].status = "unloading"]
    /\ op' = [op EXCEPT ![t] = [IdleOp EXCEPT !.m = m]]
    /\ tpc' = [tpc EXCEPT ![t] = "erase"]
    /\ raced' = EnterIndex(t)
    /\ UNCHANGED <<addressToModuleMap, reserved, crashed>>
    /\ UNCHANGED notLoaderVars

\* what erase(find(key)) leaves behind: find returns end() when the key is not
\* in the map, and erasing end() is undefined
EraseOutcomes(t, key) ==
    IF key \in DOMAIN addressToModuleMap
    THEN IndexOutcomes(t, MapErase(addressToModuleMap, key))
    ELSE { [index |-> i, crash |-> c] : i \in SubMaps(addressToModuleMap), c \in BOOLEAN }

\* the pages of the image of a module
PagesOfModule(md) ==
    { md.imageBaseAddress \div PageSize + i : i \in 0..(md.numAllocatedImagePages - 1) }

\* a destructor that gives the pages of the image back to the platform
ReservedAfterRelease(pages, md) == pages \ PagesOfModule(md)

\* ~ModuleMemoryManager: the image is decommitted with
\* Platform::decommitVirtualPages and no page is given back to the platform
ReservedAfterDestroy(pages, md) == pages

\* the rest of the body of ~LoadedModule: the erase, delete memoryManager
\* (the image is decommitted and stays reserved), and the lock is released
EraseFromIndex(t) ==
    /\ ~crashed
    /\ tpc[t] = "erase"
    /\ mutex = t
    /\ LET m == op[t].m
       IN  /\ \E o \in EraseOutcomes(t, ImageEnd(modules[m])) :
                /\ addressToModuleMap' = o.index
                /\ crashed' = o.crash
           /\ modules' = [modules EXCEPT ![m].committed = FALSE]
    /\ reserved' = ReservedAfterDestroy(reserved, modules[op[t].m])
    /\ mutex' = NoThread
    /\ tpc' = [tpc EXCEPT ![t] = "destroyMembers"]
    /\ raced' = raced \ {t}
    /\ UNCHANGED op
    /\ UNCHANGED notLoaderVars

\* after the body of the destructor: addressToFunctionMap, nameToFunctionMap
\* and functions are destroyed and the LoadedModule is freed
DestroyMembers(t) ==
    /\ ~crashed
    /\ tpc[t] = "destroyMembers"
    /\ modules' = [modules EXCEPT ![op[t].m].status = "destroyed"]
    /\ tpc' = [tpc EXCEPT ![t] = "idle"]
    /\ op' = [op EXCEPT ![t] = IdleOp]
    /\ UNCHANGED <<mutex, addressToModuleMap, reserved, raced, crashed>>
    /\ UNCHANGED notLoaderVars

\* the threads inside getJITFunctionByAddress
InLookup == { u \in Threads : tpc[u] \in {"search", "readMaps", "return"} }

\* getJITFunctionByAddress(address): the lock is taken
LookupLock(t, address) ==
    /\ ~crashed
    /\ tpc[t] = "idle"
    /\ Cardinality(InLookup) < MaxConcurrentLookups
    /\ mutex = NoThread
    /\ mutex' = t
    /\ op' = [op EXCEPT ![t] = [IdleOp EXCEPT !.address = address]]
    /\ tpc' = [tpc EXCEPT ![t] = "search"]
    /\ raced' = EnterIndex(t)
    /\ UNCHANGED <<addressToModuleMap, modules, reserved, crashed>>
    /\ UNCHANGED notLoaderVars

\* what upper_bound yields: the module it selects, or, when it ran while
\* another thread changed the map, any module of the map, none, or a crash
SearchOutcomes(t) ==
    IF t \in raced
    THEN { [m |-> m, crash |-> c] :
            m \in {NoModule} \cup { addressToModuleMap[k] : k \in DOMAIN addressToModuleMap },
            c \in BOOLEAN }
    ELSE { [m |-> SelectModule(op[t].address), crash |-> FALSE] }

\* a lookup that keeps the lock when it leaves the block
LockKept(t) == t

\* the owner of the mutex after the block that declares the Lock: nobody
LockReleased(t) == NoThread

\* upper_bound under the lock; the lock is released at the end of the block
LookupSearch(t) ==
    /\ ~crashed
    /\ tpc[t] = "search"
    /\ mutex = t
    /\ \E o \in SearchOutcomes(t) :
        /\ op' = [op EXCEPT ![t].m = o.m]
        /\ tpc' = [tpc EXCEPT ![t] = IF o.m = NoModule THEN "return" ELSE "readMaps"]
        /\ crashed' = o.crash
    /\ mutex' = LockReleased(t)
    /\ raced' = raced \ {t}
    /\ UNCHANGED <<addressToModuleMap, modules, reserved>>
    /\ UNCHANGED notLoaderVars

\* the members of a module can be read from when it was constructed until
\* its destructor has left its body
MembersAlive(m) == modules[m].status \in {"loading", "loaded", "unloading"}

\* what reading jitModule's maps yields: the function they select, or, when
\* the module's members were destroyed, any pointer or a crash
ReadOutcomes(t) ==
    IF MembersAlive(op[t].m)
    THEN { [result |-> SelectFunction(op[t].m, op[t].address), crash |-> FALSE] }
    ELSE { [result |-> r, crash |-> c] :
            r \in {NoFunction, DanglingFunction(op[t].m)}, c \in BOOLEAN }

\* jitModule->addressToFunctionMap.upper_bound(address) and the bounds check,
\* without the lock
LookupReadMaps(t) ==
    /\ ~crashed
    /\ tpc[t] = "readMaps"
    /\ \E o \in ReadOutcomes(t) :
        /\ op' = [op EXCEPT ![t].result = o.result]
        /\ crashed' = o.crash
    /\ tpc' = [tpc EXCEPT ![t] = "return"]
    /\ UNCHANGED <<mutex, addressToModuleMap, modules, reserved, raced>>
    /\ UNCHANGED notLoaderVars

\* the call returns op[t].result to its caller
LookupReturn(t) ==
    /\ ~crashed
    /\ tpc[t] = "return"
    /\ tpc' = [tpc EXCEPT ![t] = "idle"]
    /\ op' = [op EXCEPT ![t] = IdleOp]
    /\ UNCHANGED <<mutex, addressToModuleMap, modules, reserved, raced, crashed>>
    /\ UNCHANGED notLoaderVars

Addresses == 0..(AddressLimit - 1)

Next ==
    \/ \E t \in Threads : LoadConstruct(t)
    \/ \E t \in Threads : LoadInsert(t)
    \/ \E t \in Threads, m \in ModuleIds : unloadModule(t, m)
    \/ \E t \in Threads : EraseFromIndex(t)
    \/ \E t \in Threads : DestroyMembers(t)
    \/ \E t \in Threads, address \in Addresses : LookupLock(t, address)
    \/ \E t \in Threads : LookupSearch(t)
    \/ \E t \in Threads : LookupReadMaps(t)
    \/ \E t \in Threads : LookupReturn(t)

(***************************************************************************)
(* One image: the ModuleMemoryManager, seen through the calls the object   *)
(* loader (llvm::RuntimeDyld) and LoadedModule make on it, and the         *)
(* platform's pages and unwind registrations under it.                     *)
(***************************************************************************)
ImagePageSize == Pow2(ImagePageSizeLog2)

ImagePages == 1..ImageSpacePages

\* the value of a field that no constructor has initialized
Uninitialized == -1

\* struct Section { baseAddress, numPages, numCommittedBytes }
Section(base, pages, committed) ==
    [baseAddress |-> base, numPages |-> pages, numCommittedBytes |-> committed]

\* ModuleMemoryManager::ModuleMemoryManager
NewModuleMemoryManager ==
    [imageBaseAddress |-> 0,
     numAllocatedImagePages |-> Uninitialized,
     isFinalized |-> FALSE,
     codeSection |-> Section(0, 0, 0),
     readOnlySection |-> Section(0, 0, 0),
     readWriteSection |-> Section(0, 0, 0),
     hasRegisteredEHFrames |-> FALSE,
     ehFramesAddr |-> Uninitialized,
     ehFramesNumBytes |-> Uninitialized]

SectionNames == {"codeSection", "readOnlySection", "readWriteSection"}

\* the bytes added to the code section for the SEH trampoline
TrampolinePadding == 32

\* reserveAllocationSpace, the number of pages of each section
ReservedPages(seh, numCodeBytes, numReadOnlyBytes, numReadWriteBytes) ==
    [codeSection |->
        shrAndRoundUp(IF seh THEN numCodeBytes + TrampolinePadding ELSE numCodeBytes,
                      ImagePageSizeLog2),
     readOnlySection |-> shrAndRoundUp(numReadOnlyBytes, ImagePageSizeLog2),
     readWriteSection |-> shrAndRoundUp(numReadWriteBytes, ImagePageSizeLog2)]

TotalPages(n) == n.codeSection + n.readOnlySection + n.readWriteSection

\* reserveAllocationSpace, the fields it assigns; imageBase is the address
\* Platform::allocateVirtualPages returned
reserveAllocationSpace(mm, n, imageBase) ==
    LET counted == [mm EXCEPT !.codeSection.numPages = n.codeSection,
                              !.readOnlySection.numPages = n.readOnlySection,
                              !.readWriteSection.numPages = n.readWriteSection,
                              !.numAllocatedImagePages = TotalPages(n)]
        roBase == imageBase + n.codeSection * ImagePageSize
        rwBase == roBase + n.readOnlySection * ImagePageSize
    IN  IF TotalPages(n) = 0 THEN counted
        ELSE [counted EXCEPT !.imageBaseAddress = imageBase,
                             !.codeSection.baseAddress = imageBase,
                             !.readOnlySection.baseAddress = roBase,
                             !.readWriteSection.baseAddress = rwBase]

\* the platform: the pages of [basePage, basePage + n) get the given state
SetPages(access, basePage, n, state) ==
    [p \in DOMAIN access |->
        IF basePage <= p /\ p < basePage + n THEN state ELSE access[p]]

PageOf(address) == address \div ImagePageSize

\* Platform::allocateVirtualPages(n): the base page of a run of n free pages
\* the base pages the platform is taken to choose from: an odd and an even one
LowestBasePages == {1, 2}

ImageFreeBasePages(n) ==
    { p \in ImagePages \cap LowestBasePages :
        \A q \in p..(p + n - 1) : q \in ImagePages /\ pageAccess[q] = "free" }

\* icall.seq counts the calls made on the memory manager
NoCall == [name |-> "none", args |-> <<>>, result |-> 0, seq |-> 0]

Call(name, args, result) ==
    [name |-> name, args |-> args, result |-> result, seq |-> icall.seq + 1]

\* the sizes the object loader asks to reserve
ReserveSizes == {0, 1, ImagePageSize + 1}

\* RuntimeDyld::loadObject calls reserveAllocationSpace once, before any
\* allocation.  allocateVirtualPages may fail (0 pages found) and so may
\* commitVirtualPages; both are fatal.
ReserveAllocationSpace ==
    /\ ipc = "new"
    /\ \E numCodeBytes \in ReserveSizes, numReadOnlyBytes \in ReserveSizes,
          numReadWriteBytes \in ReserveSizes :
        LET n == ReservedPages(useWindowsSEH, numCodeBytes, numReadOnlyBytes,
                               numReadWriteBytes)
            args == <<numCodeBytes, numReadOnlyBytes, numReadWriteBytes>>
        IN  /\ icall' = Call("reserveAllocationSpace", args, 0)
            /\ IF TotalPages(n) = 0
               THEN /\ memoryManager' = reserveAllocationSpace(memoryManager, n, 0)
                    /\ ipc' = "loadObject"
                    /\ UNCHANGED pageAccess
               ELSE \E basePage \in ImageFreeBasePages(TotalPages(n)) \cup {0},
                       committed \in BOOLEAN :
                    IF basePage = 0
                    THEN /\ memoryManager' =
                              [memoryManager EXCEPT
                                  !.codeSection.numPages = n.codeSection,
                                  !.readOnlySection.numPages = n.readOnlySection,
                                  !.readWriteSection.numPages = n.readWriteSection,
                                  !.numAllocatedImagePages = TotalPages(n)]
                         /\ ipc' = "fatal"
                         /\ UNCHANGED pageAccess
                    ELSE IF ~committed
                    THEN /\ memoryManager' =
                              [memoryManager EXCEPT
                                  !.codeSection.numPages = n.codeSection,
                                  !.readOnlySection.numPages = n.readOnlySection,
                                  !.readWriteSection.numPages = n.readWriteSection,
                                  !.numAllocatedImagePages = TotalPages(n),
                                  !.imageBaseAddress = basePage * ImagePageSize]
                         /\ pageAccess' = SetPages(pageAccess, basePage, TotalPages(n), "reserved")
                         /\ ipc' = "fatal"
                    ELSE /\ memoryManager' = reserveAllocationSpace(memoryManager, n,
                                                    basePage * ImagePageSize)
                         /\ pageAccess' = SetPages(pageAccess, basePage, TotalPages(n), "readWrite")
                         /\ ipc' = "loadObject"
    /\ UNCHANGED <<useWindowsSEH, ehFrames>>
    /\ UNCHANGED allocations
    /\ UNCHANGED notImageVars

\* an align that rounds down
alignDown(size, alignment) == (size \div alignment) * alignment

\* ModuleMemoryManager::align, for an alignment that is a power of two
align(size, alignment) == ((size + alignment - 1) \div alignment) * alignment

\* ModuleMemoryManager::allocateBytes: the address returned, the section
\* after the call, and whether the call ended in Errors::fatal
allocateBytes(mm, sectionName, numBytes, alignment) ==
    LET section == mm[sectionName]
        allocationBaseAddress ==
            section.baseAddress + align(section.numCommittedBytes, alignment)
        numCommittedBytes ==
            align(section.numCommittedBytes, alignment) + align(numBytes, alignment)
    IN  [result |-> allocationBaseAddress,
         mm |-> [mm EXCEPT ![sectionName].numCommittedBytes = numCommittedBytes],
         fatal |-> numCommittedBytes > section.numPages * ImagePageSize]

\* the sizes and alignments of the sections the object loader allocates
AllocationSizes == {0, 3, ImagePageSize}

\* 1, the alignment of code, and an alignment greater than a page
Alignments == {1, 16, 2 * ImagePageSize}

\* the bytes [address, address + numBytes) a call has returned
ByteRange(address, numBytes) == [address |-> address, numBytes |-> numBytes]

\* the state after a call of allocateBytes on the given section
Allocate(name, sectionName, numBytes, alignment, isReadOnly) ==
    LET r == allocateBytes(memoryManager, sectionName, numBytes, alignment)
    IN  /\ memoryManager' = r.mm
        /\ icall' = Call(name, <<numBytes, alignment, isReadOnly>>, r.result)
        /\ ipc' = IF r.fatal THEN "fatal" ELSE ipc
        /\ allocations' = IF r.fatal THEN allocations
                          ELSE Append(allocations, ByteRange(r.result, numBytes))

\* allocateCodeSection(numBytes, alignment, sectionID, sectionName), called
\* by RuntimeDyld::loadObject for each code section of the object
allocateCodeSection ==
    /\ ipc = "loadObject"
    /\ icall.seq <= MaxSections
    /\ \E numBytes \in AllocationSizes, alignment \in Alignments :
        Allocate("allocateCodeSection", "codeSection", numBytes, alignment, FALSE)
    /\ UNCHANGED <<useWindowsSEH, pageAccess, ehFrames>>
    /\ UNCHANGED notImageVars

\* allocateDataSection(numBytes, alignment, sectionID, sectionName, isReadOnly)
allocateDataSection ==
    /\ ipc = "loadObject"
    /\ icall.seq <= MaxSections
    /\ \E numBytes \in AllocationSizes, alignment \in Alignments, isReadOnly \in BOOLEAN :
        Allocate("allocateDataSection",
                 IF isReadOnly THEN "readOnlySection" ELSE "readWriteSection",
                 numBytes, alignment, isReadOnly)
    /\ UNCHANGED <<useWindowsSEH, pageAccess, ehFrames>>
    /\ UNCHANGED notImageVars

\* an unwind range as the platform is given it
EHRange(imageBase, addr, numBytes) ==
    [imageBase |-> imageBase, addr |-> addr, numBytes |-> numBytes]

\* ModuleMemoryManager::registerEHFrames: the manager and the platform's
\* registrations after the call
registerEHFrames(mm, seh, registrations, addr, numBytes) ==
    IF seh THEN [mm |-> mm, ehFrames |-> registrations]
    ELSE [mm |-> [mm EXCEPT !.hasRegisteredEHFrames = TRUE,
                            !.ehFramesAddr = addr,
                            !.ehFramesNumBytes = numBytes],
          ehFrames |-> [registrations EXCEPT !.registered =
                            Append(@, EHRange(mm.imageBaseAddress, addr, numBytes))]]

\* ModuleMemoryManager::deregisterEHFrames
deregisterEHFrames(mm, registrations) ==
    IF mm.hasRegisteredEHFrames
    THEN [mm |-> [mm EXCEPT !.hasRegisteredEHFrames = FALSE],
          ehFrames |-> [registrations EXCEPT !.deregistered =
                            Append(@, EHRange(mm.imageBaseAddress, mm.ehFramesAddr,
                                              mm.ehFramesNumBytes))]]
    ELSE [mm |-> mm, ehFrames |-> registrations]

\* the unwind sections of the object: where the section after k others was
\* loaded (they lie one after another), and their size
EHFrameOffsets(k) == {16 * k}
EHFrameNumBytes == 8

\* RuntimeDyld::finalizeWithMemoryManagerLocking reports each unwind section
\* of the object through registerEHFrames(addr, loadAddr, numBytes)
RegisterEHFrames ==
    /\ ipc \in {"loadObject", "registerEHFrames"}
    /\ icall.name # "registerEHFrames" \/ icall.result < MaxEHFrameSections
    /\ \E offset \in EHFrameOffsets(IF icall.name = "registerEHFrames"
                                    THEN icall.result ELSE 0) :
        LET addr == memoryManager.readOnlySection.baseAddress + offset
            r == registerEHFrames(memoryManager, useWindowsSEH, ehFrames, addr,
                                  EHFrameNumBytes)
        IN  /\ memoryManager' = r.mm
            /\ ehFrames' = r.ehFrames
            /\ icall' = Call("registerEHFrames", <<addr, EHFrameNumBytes>>,
                             IF icall.name = "registerEHFrames"
                             THEN icall.result + 1 ELSE 1)
    /\ ipc' = "registerEHFrames"
    /\ UNCHANGED <<useWindowsSEH, pageAccess>>
    /\ UNCHANGED allocations
    /\ UNCHANGED notImageVars

\* a finalizeMemory that marks the image finalized
finalizeMemoryMarking(mm) == [mm EXCEPT !.isFinalized = TRUE]

\* ModuleMemoryManager::finalizeMemory: the manager after the call
finalizeMemory(mm) == mm

\* finalizeMemory, the last call of finalizeWithMemoryManagerLocking: it
\* does nothing and returns true
FinalizeMemory ==
    /\ ipc \in {"loadObject", "registerEHFrames"}
    /\ ipc' = "objectLoaded"
    /\ icall' = Call("finalizeMemory", <<>>, 1)
    /\ memoryManager' = finalizeMemory(memoryManager)
    /\ UNCHANGED <<useWindowsSEH, pageAccess, ehFrames>>
    /\ UNCHANGED allocations
    /\ UNCHANGED notImageVars

\* the .pdata section of an object built for Windows: its offset in the
\* read-only section, and its size
PdataOffset == 0
PdataNumBytes == 12

\* LoadedModule::LoadedModule from loader.hasError() to the freeing of the
\* SEH section copies: a loader error is fatal; on the SEH path the
\* trampoline is allocated in the code section and .pdata is registered
\* with the platform.
PostProcessSEH ==
    /\ ipc = "objectLoaded"
    /\ \E hasError \in BOOLEAN, pdataCopy \in BOOLEAN, sehHandlerSymbol \in BOOLEAN :
        IF hasError
        THEN /\ ipc' = "fatal"
             /\ UNCHANGED <<memoryManager, ehFrames, icall, allocations>>
        ELSE IF ~(useWindowsSEH /\ pdataCopy)
        THEN /\ ipc' = "postProcessed"
             /\ UNCHANGED <<memoryManager, ehFrames, icall, allocations>>
        ELSE IF ~sehHandlerSymbol
        THEN /\ ipc' = "fatal"
             /\ UNCHANGED <<memoryManager, ehFrames, icall, allocations>>
        ELSE LET r == allocateBytes(memoryManager, "codeSection", 16, 16)
             IN  /\ memoryManager' = r.mm
                 /\ icall' = Call("allocateCodeSection", <<16, 16, FALSE>>, r.result)
                 /\ IF r.fatal
                    THEN /\ ipc' = "fatal"
                         /\ UNCHANGED <<ehFrames, allocations>>
                    ELSE /\ ipc' = "postProcessed"
                         /\ allocations' = Append(allocations, ByteRange(r.result, 16))
                         /\ ehFrames' = [ehFrames EXCEPT !.registered =
                                Append(@, EHRange(memoryManager.imageBaseAddress,
                                    memoryManager.readOnlySection.baseAddress + PdataOffset,
                                    PdataNumBytes))]
    /\ UNCHANGED <<useWindowsSEH, pageAccess>>
    /\ UNCHANGED notImageVars

\* an access that leaves every section writable
FinalAccessAllWritable ==
    [codeSection |-> "readWrite", readOnlySection |-> "readWrite",
     readWriteSection |-> "readWrite"]

\* the access reallyFinalizeMemory gives the pages of each section
FinalAccess ==
    [codeSection |-> "execute", readOnlySection |-> "readOnly",
     readWriteSection |-> "readWrite"]

\* reallyFinalizeMemory: the pages after Platform::setVirtualPageAccess on
\* each section that has pages
FinalizedPages(mm, access) ==
    [p \in DOMAIN access |->
        IF \E sn \in SectionNames :
                /\ PageOf(mm[sn].baseAddress) <= p
                /\ p < PageOf(mm[sn].baseAddress) + mm[sn].numPages
        THEN FinalAccess[CHOOSE sn \in SectionNames :
                /\ PageOf(mm[sn].baseAddress) <= p
                /\ p < PageOf(mm[sn].baseAddress) + mm[sn].numPages]
        ELSE access[p]]

\* memoryManager->reallyFinalizeMemory(); a setVirtualPageAccess that fails
\* is fatal (errorUnless)
ReallyFinalizeMemory ==
    /\ ipc = "postProcessed"
    /\ memoryManager' = [memoryManager EXCEPT !.isFinalized = TRUE]
    /\ icall' = Call("reallyFinalizeMemory", <<>>, 0)
    /\ \E accessSet \in BOOLEAN :
        IF accessSet \/ memoryManager.numAllocatedImagePages = 0
        THEN /\ pageAccess' = FinalizedPages(memoryManager, pageAccess)
             /\ ipc' = "finalized"
        ELSE /\ ipc' = "fatal"
             /\ UNCHANGED pageAccess
    /\ UNCHANGED <<useWindowsSEH, ehFrames>>
    /\ UNCHANGED allocations
    /\ UNCHANGED notImageVars

\* the rest of the constructor: the functions of the object are enumerated
\* and the module is inserted into the global index under the end address of
\* its image
EnumerateAndInsert ==
    /\ ipc = "finalized"
    /\ icall.name = "reallyFinalizeMemory"
    /\ icall' = Call("addressToModuleMap.emplace",
                     <<memoryManager.imageBaseAddress
                       + memoryManager.numAllocatedImagePages * ImagePageSize>>, 0)
    /\ UNCHANGED <<ipc, useWindowsSEH, memoryManager, pageAccess, ehFrames>>
    /\ UNCHANGED allocations
    /\ UNCHANGED notImageVars

\* the pages Platform::decommitVirtualPages leaves: reserved, without access
DecommittedPages(mm, access) ==
    SetPages(access, PageOf(mm.imageBaseAddress), mm.numAllocatedImagePages, "reserved")

\* ModuleMemoryManager::~ModuleMemoryManager (delete memoryManager in
\* ~LoadedModule): deregisterEHFrames, then the image is decommitted
DestroyMemoryManager ==
    /\ ipc = "finalized"
    /\ icall.name = "addressToModuleMap.emplace"
    /\ LET r == deregisterEHFrames(memoryManager, ehFrames)
       IN  /\ memoryManager' = r.mm
           /\ ehFrames' = r.ehFrames
    /\ pageAccess' = DecommittedPages(memoryManager, pageAccess)
    /\ icall' = Call("~ModuleMemoryManager", <<>>, 0)
    /\ ipc' = "destroyed"
    /\ UNCHANGED useWindowsSEH
    /\ UNCHANGED allocations
    /\ UNCHANGED notImageVars

\* no image: the state of this part while the rest of the model runs
ImageIdle ==
    /\ ipc = "off"
    /\ useWindowsSEH = FALSE
    /\ memoryManager = NewModuleMemoryManager
    /\ pageAccess = [p \in ImagePages |-> "free"]
    /\ ehFrames = [registered |-> <<>>, deregistered |-> <<>>]
    /\ icall = NoCall
    /\ allocations = <<>>

\* memoryManager(new ModuleMemoryManager()), in either build
ImageInit ==
    /\ ipc = "new"
    /\ useWindowsSEH \in BOOLEAN
    /\ memoryManager = NewModuleMemoryManager
    /\ pageAccess = [p \in ImagePages |-> "free"]
    /\ ehFrames = [registered |-> <<>>, deregistered |-> <<>>]
    /\ icall = NoCall
    /\ allocations = <<>>

ImageNext ==
    \/ ReserveAllocationSpace
    \/ allocateCodeSection
    \/ allocateDataSection
    \/ RegisterEHFrames
    \/ FinalizeMemory
    \/ PostProcessSEH
    \/ ReallyFinalizeMemory
    \/ EnumerateAndInsert
    \/ DestroyMemoryManager

(***************************************************************************)
(* LLVMJIT::loadModule: the binding of the object's undefined symbols.     *)
(***************************************************************************)
\* getExternalName(baseName, index)
getExternalName(baseName, index) == baseName \o ToString(index)

\* offsetof(CompartmentRuntimeData, tableBases), offsetof(CompartmentRuntimeData,
\* memoryBases), offsetof(ContextRuntimeData, globalData) and sizeof(void*)
RuntimeLayout == [tableBases |-> 1024, memoryBases |-> 2048, globalData |-> 64,
                  pointerBytes |-> 8]

\* HashMap::addOrFail: the map with the pair added, or the failure when the
\* key is already in the map
AddOrFail(map, key, value) ==
    IF map.failed \/ key \in DOMAIN map.pairs
    THEN [map EXCEPT !.failed = TRUE]
    ELSE [failed |-> FALSE,
          pairs |-> [k \in DOMAIN map.pairs \cup {key} |->
                        IF k = key THEN value ELSE map.pairs[k]]]

EmptyHashMap == [failed |-> FALSE, pairs |-> [k \in {} |-> 0]]

\* a map of all the pairs whose key is in keys, added in any order
RECURSIVE AddAllOrFail(_, _, _)
AddAllOrFail(map, pairs, keys) ==
    IF keys = {} THEN map
    ELSE LET key == CHOOSE k \in keys : TRUE
         IN  AddAllOrFail(AddOrFail(map, key, pairs[key]), pairs, keys \ {key})

\* one of the loops over a vector of bindings: addOrFail(getExternalName(
\* baseName, index), value of element index) for index = from, from + 1, ...
RECURSIVE BindVector(_, _, _, _)
BindVector(map, baseName, values, from) ==
    IF from >= Len(values) THEN map
    ELSE BindVector(AddOrFail(map, getExternalName(baseName, from), values[from + 1]),
                    baseName, values, from + 1)

\* a value bound to every global whatever its type: the pointer
GlobalBindingPointer(globalSpec) == globalSpec.immutableValuePointer

\* the value bound to a global
GlobalBindingValue(globalSpec) ==
    IF globalSpec.isMutable
    THEN RuntimeLayout.globalData + globalSpec.mutableDataOffset
    ELSE globalSpec.immutableValuePointer

TableBindingValue(table) == RuntimeLayout.tableBases + RuntimeLayout.pointerBytes * table.id

MemoryBindingValue(memory) == RuntimeLayout.memoryBases + RuntimeLayout.pointerBytes * memory.id

MapSeq(Op(_), values) == [i \in 1..Len(values) |-> Op(values[i])]

\* importedSymbolMap as loadModule builds it from its arguments
BuildImportedSymbolMap(args) ==
    LET m1 == AddAllOrFail(EmptyHashMap, args.wavmIntrinsicsExportMap,
                           DOMAIN args.wavmIntrinsicsExportMap)
        m2 == BindVector(m1, "functionImport", args.functionImports, 0)
        m3 == BindVector(m2, "tableOffset", MapSeq(TableBindingValue, args.tables), 0)
        m4 == BindVector(m3, "memoryOffset", MapSeq(MemoryBindingValue, args.memories), 0)
        m5 == BindVector(m4, "global", MapSeq(GlobalBindingValue, args.globals), 0)
    IN  BindVector(m5, "exceptionType", args.exceptionTypes, 0)

\* nameToFunctionMap as the constructor builds it: addOrFail(name, function)
\* for the functions in the order of the enumeration
RECURSIVE BuildNameToFunctionMap(_, _, _)
BuildNameToFunctionMap(map, functions, from) ==
    IF from > Len(functions) THEN map
    ELSE BuildNameToFunctionMap(AddOrFail(map, functions[from].name, from),
                                functions, from + 1)

\* the address the image of the one module of a call is at
BindImageBase == PageSize

NoJITModule == [functions |-> <<>>, nameToFunctionMap |-> EmptyHashMap.pairs]

\* the addresses the resolver gave the object loader: none before the load
NoneResolved == [name \in {} |-> 0]

\* what the caller passes
IntrinsicsExportMaps ==
    { [name \in {} |-> 0],
      [name \in {"wavmIntrinsicTrap"} |-> 201],
      [name \in {"wavmIntrinsicTrap", "functionImport0"} |-> 201],
      [name \in {"global1"} |-> 202],
      \* a binding with the name of a runtime helper, and a binding of zero
      [name \in {"wavmIntrinsicTrap"} |-> 77],
      [name \in {"functionImport7"} |-> 0] }

SeqsUpTo(S, n) == UNION { [1..k -> S] : k \in 0..n }

GlobalBindings ==
    { [isMutable |-> TRUE, mutableDataOffset |-> 16, immutableValuePointer |-> 0],
      [isMutable |-> FALSE, mutableDataOffset |-> 0, immutableValuePointer |-> 401] }

BindArguments ==
    [wavmIntrinsicsExportMap : IntrinsicsExportMaps,
     functionImports : SeqsUpTo({101}, MaxBindings),
     numFunctionDefs : 0..MaxBindings,
     tables : SeqsUpTo({[id |-> 3]}, MaxBindings - 1),
     memories : SeqsUpTo({[id |-> 5]}, MaxBindings - 1),
     globals : SeqsUpTo(GlobalBindings, MaxBindings),
     exceptionTypes : SeqsUpTo({301}, MaxBindings - 1),
     object : Objects]

NoBindArguments ==
    [wavmIntrinsicsExportMap |-> [name \in {} |-> 0], functionImports |-> <<>>,
     numFunctionDefs |-> 0, tables |-> <<>>, memories |-> <<>>, globals |-> <<>>,
     exceptionTypes |-> <<>>, object |-> MkObject(0, 0, 0, <<>>, {})]

BindIdle ==
    /\ bpc = "off"
    /\ bind = [args |-> NoBindArguments,
               importedSymbolMap |-> EmptyHashMap.pairs, resolved |-> NoneResolved,
               jitModule |-> NoJITModule, outFunctionDefs |-> <<>>]

\* a call of loadModule with an empty outFunctionDefs
BindInit ==
    /\ bpc = "bind"
    /\ \E a \in BindArguments :
        bind = [args |-> a, importedSymbolMap |-> EmptyHashMap.pairs,
                resolved |-> NoneResolved,
                jitModule |-> NoJITModule, outFunctionDefs |-> <<>>]

\* the loops that bind the undefined symbols of the object
BindSymbols ==
    /\ bpc = "bind"
    /\ LET map == BuildImportedSymbolMap(bind.args)
       IN  IF map.failed
           THEN /\ bpc' = "fatal"
                /\ UNCHANGED bind
           ELSE /\ bpc' = "load"
                /\ bind' = [bind EXCEPT !.importedSymbolMap = map.pairs]
    /\ UNCHANGED notBindVars

\* new LoadedModule(objectFileBytes, importedSymbolMap, true), as far as the
\* call depends on it: the loader's error, the functions and their names
NewLoadedModule ==
    /\ bpc = "load"
    /\ LET obj == bind.args.object
           fns == EnumerateFunctions(obj.symbols, BindImageBase, <<>>, EmptyMap)
           names == BuildNameToFunctionMap(EmptyHashMap, fns.functions, 1)
           resolved == [name \in obj.imports |-> findSymbol(bind.importedSymbolMap, name)]
       IN  IF LoaderHasError(obj, bind.importedSymbolMap) \/ names.failed
           THEN /\ bpc' = "fatal"
                /\ bind' = [bind EXCEPT !.resolved = resolved]
           ELSE /\ bpc' = "collect"
                /\ bind' = [bind EXCEPT !.resolved = resolved,
                                        !.jitModule =
                               [functions |-> fns.functions,
                                nameToFunctionMap |-> names.pairs]]
    /\ UNCHANGED notBindVars

\* the loop that looks the function definitions up by name; operator[] of a
\* name that is not in the map is undefined
CollectFunctionDefs ==
    /\ bpc = "collect"
    /\ LET n == bind.args.numFunctionDefs
           map == bind.jitModule.nameToFunctionMap
       IN  IF \A i \in 0..(n - 1) : getExternalName("functionDef", i) \in DOMAIN map
           THEN /\ bpc' = "done"
                /\ bind' = [bind EXCEPT !.outFunctionDefs =
                               bind.outFunctionDefs \o
                               [i \in 1..n |-> map[getExternalName("functionDef", i - 1)]]]
           ELSE /\ bpc' = "undefined"
                /\ \E defs \in [1..n -> 0..Len(bind.jitModule.functions)] :
                    bind' = [bind EXCEPT !.outFunctionDefs = defs]
    /\ UNCHANGED notBindVars

BindNext == BindSymbols \/ NewLoadedModule \/ CollectFunctionDefs

(***************************************************************************)
(* The calls of a client on the streams.                                   *)
(***************************************************************************)
NoStreamCall == [name |-> "none", numBytes |-> 0, before |-> 0, result |-> 0,
                 error |-> ErrNone]

StreamCall(name, numBytes, before, result, error) ==
    [name |-> name, numBytes |-> numBytes, before |-> before, result |-> result,
     error |-> error]

StreamIdle == written = <<>> /\ scall = NoStreamCall /\ extensions = 0

\* InputStream::advance on a MemoryInputStream: the stream after the call,
\* the pointer returned, or the exception of getMoreData
InputAdvance(s, numBytes) ==
    IF ~InHasData(s, numBytes)
    THEN [error |-> ErrEndOfStream, stream |-> s, data |-> 0]
    ELSE [error |-> ErrNone, stream |-> InAdvance(s, numBytes), data |-> s.next]

\* InputStream::peek on a MemoryInputStream
InputPeek(s, numBytes) ==
    IF ~InHasData(s, numBytes)
    THEN [error |-> ErrEndOfStream, stream |-> s, data |-> 0]
    ELSE [error |-> ErrNone, stream |-> s, data |-> s.next]

\* the byte the client writes at position i of the stream (never 0, which is
\* what std::vector::resize fills with)
ClientByte(i) == (i % 255) + 1

\* memcpy(pointer, bytes, numBytes) into the buffer at the returned pointer
CopyInto(bytes, pointer, data) ==
    [i \in DOMAIN bytes |->
        IF pointer < i /\ i <= pointer + Len(data) THEN data[i - pointer] ELSE bytes[i]]

(***************************************************************************)
(* The codec client: a value is written through the encoder and read back, *)
(* or a byte sequence is handed to the decoder.                            *)
(***************************************************************************)
\* 624485 and -123456 in a type of w bits
Value624485(w) == BVofNat(624485, w)
ValueMinus123456(w) == BVNot(BVofNat(123455, w))

\* Every value of an 8 bit type; of the wider types the values made of a run
\* of equal low bits, a free window of WindowBits bits and a run of equal
\* high bits (0, 1, -1, the powers of two and their neighbours, the limits of
\* every 7 bit group and of the type), and the two values of the examples.
SampledValues(w) ==
    IF w = 8 THEN [0..7 -> Bit]
    ELSE { [i \in 0..(w - 1) |->
                IF i < s THEN lo
                ELSE IF i < s + WindowBits THEN (m \div Pow2(i - s)) % 2
                ELSE hi] :
            s \in 0..(w - 1), m \in 0..(Pow2(WindowBits) - 1), lo \in Bit, hi \in Bit }
         \cup { Value624485(w), ValueMinus123456(w) }

\* E5 8E 26, E5 8E A6 00, C0 BB 78
ExampleInputs == { <<229, 142, 38>>, <<229, 142, 166, 0>>, <<192, 187, 120>> }

\* n continuation bytes (0x80 or 0xFF), then any byte, then possibly a byte
\* that belongs to whatever follows the varint in the stream.
LeadBytes == {128, 255}

SampledInputs(c) ==
    { [i \in 1..n |-> l] \o <<f>> \o t :
        n \in 0..MaxBytes(c), l \in LeadBytes, f \in 0..255, t \in {<<>>, <<0>>} }
    \cup ExampleInputs

NoResult(c) ==
    [error |-> "unset", stream |-> NewArrayOutputStream,
     lo |-> c.minValue, value |-> BVofNat(0, c.valueBits), hi |-> c.maxValue]

CodecInit ==
    /\ codec \in Codecs
    /\ \/ /\ cpc = "start"
          /\ val \in SampledValues(codec.valueBits)
          /\ inp = MemoryInputStream(<<>>)
       \/ /\ cpc = "input"
          /\ val = BVofNat(0, codec.valueBits)
          /\ inp \in { MemoryInputStream(d) : d \in SampledInputs(codec) }
    /\ out = NewArrayOutputStream
    /\ outBefore = NewArrayOutputStream
    /\ encRes = NoResult(codec)
    /\ decRes = NoResult(codec)
    /\ LoaderInit(1)
    /\ ImageIdle
    /\ StreamIdle
    /\ BindIdle

\* serialize(OutputStream&, uint8&): a raw byte written before the varint
WriteRawByte ==
    /\ cpc = "start"
    /\ out.next < MaxPrefix
    /\ out' = WriteByte(out, 170)
    /\ outBefore' = out'
    /\ UNCHANGED <<cpc, codec, val, inp, encRes, decRes>>
    /\ UNCHANGED notCodecVars

\* serializeVarInt(OutputStream&, value, minValue, maxValue)
Encode ==
    /\ cpc = "start"
    /\ encRes' = SerializeVarIntOut(codec, out, val)
    /\ out' = encRes'.stream
    /\ outBefore' = out
    /\ cpc' = IF encRes'.error = ErrNone THEN "encoded" ELSE "failed"
    /\ UNCHANGED <<codec, val, inp, decRes>>
    /\ UNCHANGED notCodecVars

\* getBytes(), then a MemoryInputStream over them: the raw bytes are read
\* back with advance, the varint with serializeVarInt(InputStream&, ...)
DecodeBack ==
    /\ cpc = "encoded"
    /\ LET data == getBytes(out)
           s == InAdvance(MemoryInputStream(data), outBefore.next)
       IN  /\ decRes' = SerializeVarIntIn(codec, s)
           /\ inp' = decRes'.stream
    /\ out' = NewArrayOutputStream
    /\ cpc' = "decoded"
    /\ UNCHANGED <<codec, val, outBefore, encRes>>
    /\ UNCHANGED notCodecVars

\* serializeVarInt(InputStream&, value, minValue, maxValue) on given bytes
DecodeInput ==
    /\ cpc = "input"
    /\ decRes' = SerializeVarIntIn(codec, inp)
    /\ inp' = decRes'.stream
    /\ cpc' = "read"
    /\ UNCHANGED <<codec, val, out, outBefore, encRes>>
    /\ UNCHANGED notCodecVars

CodecNext == WriteRawByte \/ Encode \/ DecodeBack \/ DecodeInput

SpecCodec == CodecInit /\ [][CodecNext]_vars

\* the codec client at rest, while the loader runs
CodecIdle ==
    /\ cpc = "idle"
    /\ codec = serializeVarUInt1(8)
    /\ val = BVofNat(0, 8)
    /\ out = NewArrayOutputStream
    /\ outBefore = NewArrayOutputStream
    /\ inp = MemoryInputStream(<<>>)
    /\ encRes = NoResult(codec)
    /\ decRes = NoResult(codec)
    /\ StreamIdle

\* the sizes of the client's calls: nothing, a few bytes, more than the
\* first buffer
AdvanceSizes == {0, 1, 2, 33}

\* a client with an empty ArrayOutputStream and a MemoryInputStream over
\* the bytes 1..n
StreamInit ==
    /\ cpc = "stream"
    /\ codec = serializeVarUInt1(8)
    /\ val = BVofNat(0, 8)
    /\ out = NewArrayOutputStream
    /\ outBefore = NewArrayOutputStream
    /\ inp \in { MemoryInputStream([i \in 1..n |-> i]) : n \in 0..MaxInputBytes }
    /\ encRes = NoResult(codec)
    /\ decRes = NoResult(codec)
    /\ StreamIdle

\* serializeBytes(OutputStream&, bytes, numBytes):
\* memcpy(stream.advance(numBytes), bytes, numBytes)
SerializeBytesOut ==
    /\ cpc = "stream"
    /\ \E numBytes \in AdvanceSizes :
        /\ Len(written) + numBytes <= MaxStreamBytes
        /\ LET data == [i \in 1..numBytes |-> ClientByte(Len(written) + i)]
               t == OutAdvance(out, numBytes)
           IN  /\ out' = [t EXCEPT !.bytes = CopyInto(t.bytes, AdvanceData(out), data)]
               /\ written' = written \o data
               /\ extensions' = IF out.next + numBytes > Len(out.bytes)
                                THEN extensions + 1 ELSE extensions
               /\ scall' = StreamCall("advance", numBytes, out.next, AdvanceData(out), ErrNone)
    /\ UNCHANGED <<cpc, inp>>
    /\ UNCHANGED notStreamVars

\* ArrayOutputStream::getBytes: the vector is cut to the cursor and moved to
\* the caller; next and end are null
GetBytes ==
    /\ cpc = "stream"
    /\ scall' = StreamCall("getBytes", 0, out.next, getBytes(out), ErrNone)
    /\ out' = NewArrayOutputStream
    /\ cpc' = "taken"
    /\ UNCHANGED <<inp, written, extensions>>
    /\ UNCHANGED notStreamVars

\* serializeBytes(InputStream&, bytes, numBytes): stream.advance(numBytes)
SerializeBytesIn ==
    /\ cpc \in {"stream", "taken"}
    /\ \E numBytes \in 0..MaxInputBytes :
        LET r == InputAdvance(inp, numBytes)
        IN  /\ inp' = r.stream
            /\ scall' = StreamCall("input advance", numBytes, inp.next, r.data, r.error)
    /\ UNCHANGED <<cpc, out, written, extensions>>
    /\ UNCHANGED notStreamVars

\* stream.peek(numBytes)
Peek ==
    /\ cpc \in {"stream", "taken"}
    /\ \E numBytes \in 0..MaxInputBytes :
        LET r == InputPeek(inp, numBytes)
        IN  /\ inp' = r.stream
            /\ scall' = StreamCall("peek", numBytes, inp.next, r.data, r.error)
    /\ UNCHANGED <<cpc, out, written, extensions>>
    /\ UNCHANGED notStreamVars

StreamNext == SerializeBytesOut \/ GetBytes \/ SerializeBytesIn \/ Peek

\* a client writes bytes to an output stream and reads an input stream
InitStream == StreamInit /\ LoaderInit(1) /\ ImageIdle /\ BindIdle

SpecStream == InitStream /\ [][StreamNext]_vars

\* one thread loads, unloads and looks up
Init == LoaderInit(1) /\ CodecIdle /\ ImageIdle /\ BindIdle

Spec == Init /\ [][Next]_vars

\* NumThreads threads load, unload and look up
InitMT == LoaderInit(NumThreads) /\ CodecIdle /\ ImageIdle /\ BindIdle

SpecMT == InitMT /\ [][Next]_vars

\* one image is built and destroyed
InitImage == ImageInit /\ LoaderInit(1) /\ CodecIdle /\ BindIdle

SpecImage == InitImage /\ [][ImageNext]_vars

\* one call of loadModule, with every combination of the arguments
InitBind == BindInit /\ LoaderInit(1) /\ CodecIdle /\ ImageIdle

SpecBind == InitBind /\ [][BindNext]_vars

(***************************************************************************)
(* LEB128 as the WebAssembly binary format defines it, for stating the     *)
(* properties of the codec.                                                *)
(***************************************************************************)
ByteBit(b, k) == (b \div Pow2(k)) % 2

\* number of bytes of the encoding at the head of d: up to and including the
\* first byte without the continuation bit (0 when there is none)
HeadLen(d) ==
    IF \E i \in 1..Len(d) : d[i] < 128
    THEN CHOOSE i \in 1..Len(d) : d[i] < 128 /\ \A j \in 1..(i - 1) : d[j] >= 128
    ELSE 0

\* bit j of the integer denoted by the n byte encoding at the head of d
LEBBit(d, n, signed, j) ==
    IF j < 7 * n THEN ByteBit(d[(j \div 7) + 1], j % 7)
    ELSE IF signed THEN ByteBit(d[n], 6) ELSE 0

\* that integer, in the codec's value type
LEBValue(c, d) == [j \in 0..(c.valueBits - 1) |-> LEBBit(d, HeadLen(d), c.signed, j)]

\* the encoding at the head of d has at most ceil(maxBits/7) bytes and denotes
\* an integer of maxBits bits
WellFormedHead(c, d) ==
    LET n == HeadLen(d)
    IN  /\ n >= 1
        /\ 7 * n < c.maxBits + 7
        /\ \A j \in c.maxBits..(7 * n - 1) :
              LEBBit(d, n, c.signed, j) = (IF c.signed THEN LEBBit(d, n, c.signed, c.maxBits - 1) ELSE 0)

\* value < minValue or value > maxValue
OutsideRange(c, v) ==
    \/ BVLess(v, c.minValue, c.valueBits, c.signed)
    \/ BVLess(c.maxValue, v, c.valueBits, c.signed)

\* v is an integer of the codec's maxBits bits
FitsMaxBits(c, v) ==
    IF c.signed
    THEN \A i \in (c.maxBits - 1)..(c.valueBits - 1) : v[i] = v[c.valueBits - 1]
    ELSE \A i \in c.maxBits..(c.valueBits - 1) : v[i] = 0

\* the bytes the last encode wrote
Written == SubSeq(out.bytes, outBefore.next + 1, out.next)

(***************************************************************************)
(* C6: for each named codec and every value in its range, encoding the     *)
(* value and decoding the bytes with the same codec succeeds and yields    *)
(* the original value.                                                     *)
(***************************************************************************)
C6_RoundTrip ==
    (codec \in NamedCodecs /\ FitsMaxBits(codec, val)) =>
        /\ cpc # "failed"
        /\ cpc = "encoded" => encRes.error = ErrNone
        /\ cpc = "decoded" =>
              /\ decRes.error = ErrNone
              /\ decRes.value = val
              /\ decRes.stream.next = Len(decRes.stream.data)

C6_Witness ==
    /\ cpc = "decoded"
    /\ codec = serializeVarInt64(64)
    /\ val = BVHighOnes(63, 64)
    /\ decRes.error = ErrNone
    /\ decRes.value = val

(***************************************************************************)
(* C7: decoding rejects with "Invalid LEB encoding: invalid final byte"    *)
(* every input whose ceil(maxBits/7)-th byte still has the continuation    *)
(* bit, and every input whose ceil(maxBits/7)-th byte has unused high bits *)
(* that are not zero (unsigned) or not all equal to the sign bit (signed). *)
(***************************************************************************)
TooLong(c, d) ==
    /\ Len(d) >= MaxBytes(c)
    /\ \A i \in 1..MaxBytes(c) : d[i] >= 128

NonSignExtendingFinalByte(c, d) ==
    LET m == MaxBytes(c)
        used == c.maxBits - 7 * (m - 1)
    IN  /\ Len(d) >= m
        /\ \A i \in 1..(m - 1) : d[i] >= 128
        /\ \E k \in used..6 :
              ByteBit(d[m], k) # (IF c.signed THEN ByteBit(d[m], used - 1) ELSE 0)

C7_RejectsInvalidFinalByte ==
    (cpc = "read" /\ (TooLong(codec, inp.data) \/ NonSignExtendingFinalByte(codec, inp.data)))
        => decRes.error = ErrInvalidFinalByte

(***************************************************************************)
(* C8 as stated: decoding as varuint32 rejects an encoding of at most     *)
(* five bytes whose last byte is a redundant 0x00 group after a byte with  *)
(* the continuation bit, such as E5 8E A6 00.                              *)
(***************************************************************************)
RedundantTrailingGroup(d) == HeadLen(d) >= 2 /\ d[HeadLen(d)] = 0

C8_RejectsRedundantGroup ==
    (cpc = "read" /\ codec.name = "varuint32" /\ RedundantTrailingGroup(inp.data))
        => decRes.error # ErrNone

(***************************************************************************)
(* C8 amended: decoding as varuint32 accepts an encoding of at most five   *)
(* bytes that ends in a redundant 0x00 group; it consumes the whole        *)
(* encoding and yields the integer it denotes: E5 8E A6 00 decodes to      *)
(* 624485.                                                                 *)
(***************************************************************************)
C8_AcceptsRedundantGroup ==
    (/\ cpc = "read"
     /\ codec.name = "varuint32"
     /\ RedundantTrailingGroup(inp.data)
     /\ HeadLen(inp.data) <= 5)
        => /\ decRes.error = ErrNone
           /\ decRes.value = LEBValue(codec, inp.data)
           /\ decRes.stream.next = HeadLen(inp.data)
           /\ inp.data = <<229, 142, 166, 0>> => decRes.value = Value624485(codec.valueBits)

C8_Witness ==
    /\ cpc = "read"
    /\ codec = serializeVarUInt32(32)
    /\ inp.data = <<229, 142, 166, 0>>
    /\ decRes.error = ErrNone
    /\ decRes.value = Value624485(32)

(***************************************************************************)
(* C9: decoding a well-formed encoding whose value is outside              *)
(* [minValue, maxValue] fails with the out-of-range error carrying both    *)
(* bounds and the value; encoding a value outside the range fails with the *)
(* same error and leaves the output stream's cursor and contents as they   *)
(* were.                                                                   *)
(***************************************************************************)
IsRangeError(r, c, v) ==
    /\ r.error = ErrOutOfRange
    /\ r.lo = c.minValue
    /\ r.hi = c.maxValue
    /\ r.value = v

C9_RangeEnforced ==
    /\ (/\ cpc = "read"
        /\ WellFormedHead(codec, inp.data)
        /\ OutsideRange(codec, LEBValue(codec, inp.data)))
           => IsRangeError(decRes, codec, LEBValue(codec, inp.data))
    /\ (cpc \in {"encoded", "failed"} /\ OutsideRange(codec, val))
           => /\ cpc = "failed"
              /\ IsRangeError(encRes, codec, val)
              /\ out = outBefore

C9_Witness ==
    /\ cpc = "read"
    /\ WellFormedHead(codec, inp.data)
    /\ OutsideRange(codec, LEBValue(codec, inp.data))
    /\ decRes.error = ErrOutOfRange

(***************************************************************************)
(* C10: the encoder emits the value's 7 bit groups least significant       *)
(* first, with the continuation bit on every byte but the last, and stops  *)
(* at the first group after which the rest of the value is 0 (unsigned, or *)
(* signed with bit 6 of the group clear) or -1 (signed with bit 6 of the   *)
(* group set); 624485 is E5 8E 26 as varuint32, -123456 is C0 BB 78 as     *)
(* varint32, and no encoding is longer than ceil(maxBits/7) bytes.         *)
(***************************************************************************)
\* bit j of the value, sign- or zero-extended past its type
ValueBit(c, v, j) ==
    IF j < c.valueBits THEN v[j] ELSE IF c.signed THEN v[c.valueBits - 1] ELSE 0

\* after k groups nothing but the extension of the value is left
NothingLeft(c, v, k) ==
    \A j \in (7 * k)..(c.valueBits - 1) :
        v[j] = (IF c.signed THEN ValueBit(c, v, 7 * k - 1) ELSE 0)

C10_BitExactEncoding ==
    cpc = "encoded" =>
        LET e == Written
            n == Len(e)
        IN  /\ n >= 1
            /\ \A i \in 1..(n - 1) : e[i] >= 128
            /\ e[n] < 128
            /\ \A j \in 0..(7 * n - 1) : ByteBit(e[(j \div 7) + 1], j % 7) = ValueBit(codec, val, j)
            /\ NothingLeft(codec, val, n)
            /\ \A k \in 1..(n - 1) : ~NothingLeft(codec, val, k)
            /\ 7 * n < codec.maxBits + 7
            /\ (codec.name = "varuint32" /\ val = Value624485(codec.valueBits))
                  => e = <<229, 142, 38>>
            /\ (codec.name = "varint32" /\ val = ValueMinus123456(codec.valueBits))
                  => e = <<192, 187, 120>>

C10_Witness ==
    /\ cpc = "encoded"
    /\ codec = serializeVarInt32(32)
    /\ val = ValueMinus123456(32)
    /\ Written = <<192, 187, 120>>


(***************************************************************************)
(* For stating the properties of the loader.                               *)
(***************************************************************************)
Loaded(m) == modules[m].status = "loaded"

Unloaded(m) == modules[m].status = "destroyed"

\* address a lies in [function.base, function.base + function.length)
Covers(function, a) ==
    function.baseAddress <= a /\ a < function.baseAddress + function.numBytes

\* the addresses of the image of module m
ImageAddresses(m) ==
    { a \in Addresses : modules[m].imageBaseAddress <= a /\ a < ImageEnd(modules[m]) }

\* the functions of the loaded modules
LoadedFunctions ==
    UNION { { FunctionRef(m, i) : i \in DOMAIN modules[m].functions } :
            m \in { k \in ModuleIds : Loaded(k) } }

FunctionOf(ref) == modules[ref.m].functions[ref.f]

\* thread t is about to return from getJITFunctionByAddress(op[t].address)
Returning(t) == tpc[t] = "return"

(***************************************************************************)
(* C1: after any sequence of loads and unloads, a lookup of an address     *)
(* inside a function f of a loaded module returns f.                       *)
(***************************************************************************)
C1_LookupReturnsCoveringFunction ==
    \A t \in Threads : Returning(t) =>
        \A f \in LoadedFunctions :
            Covers(FunctionOf(f), op[t].address) => op[t].result = f

(***************************************************************************)
(* C2: a lookup returns none for every address that no function of a       *)
(* loaded module covers (between two images, inside an image outside its   *)
(* functions, one past the last byte of a function); and a lookup of the   *)
(* address one past the last byte of f returns the function g that starts  *)
(* there and covers it.                                                    *)
(***************************************************************************)
C2_LookupReturnsNoneOrNextFunction ==
    \A t \in Threads : Returning(t) =>
        LET a == op[t].address
        IN  /\ (\A f \in LoadedFunctions : ~Covers(FunctionOf(f), a))
                    => op[t].result = NoFunction
            /\ \A f, g \in LoadedFunctions :
                    /\ a = FunctionOf(f).baseAddress + FunctionOf(f).numBytes
                    /\ a = FunctionOf(g).baseAddress
                    /\ Covers(FunctionOf(g), a)
                    => op[t].result = g

\* the part of C2 about the addresses no function covers
C2_UncoveredReturnsNone ==
    \A t \in Threads : Returning(t) =>
        ((\A f \in LoadedFunctions : ~Covers(FunctionOf(f), op[t].address))
            => op[t].result = NoFunction)

(***************************************************************************)
(* C3: once unloadModule(m) has completed, the global index does not       *)
(* contain m and a lookup of any address of m's former image returns none, *)
(* whichever modules are loaded above or below it.                         *)
(***************************************************************************)
C3_UnloadRemovesModule ==
    \A m \in ModuleIds : Unloaded(m) =>
        /\ \A k \in DOMAIN addressToModuleMap : addressToModuleMap[k] # m
        /\ \A a \in ImageAddresses(m) : getJITFunctionByAddress(a) = NoFunction
        /\ \A t \in Threads :
                Returning(t) /\ op[t].address \in ImageAddresses(m)
                    => op[t].result = NoFunction

\* a lookup inside the former image of an unloaded module has returned while
\* a module with functions is loaded above it
C3_Witness ==
    \E m, n \in ModuleIds, t \in Threads :
        /\ Unloaded(m)
        /\ Loaded(n)
        /\ modules[n].functions # <<>>
        /\ modules[n].imageBaseAddress > modules[m].imageBaseAddress
        /\ Returning(t)
        /\ op[t].address \in ImageAddresses(m)
        /\ op[t].m = n

(***************************************************************************)
(* C4: the insert at the end of a load, the erase at the start of an       *)
(* unload and the upper-bound lookup all hold the index mutex while they   *)
(* access the global index, so no two threads access it at the same time.  *)
(***************************************************************************)
C4_IndexAccessHoldsMutex ==
    /\ \A t \in Threads : tpc[t] \in IndexAccess => mutex = t
    /\ \A t, u \in Threads :
            t # u => ~(tpc[t] \in IndexAccess /\ tpc[u] \in IndexAccess)

(***************************************************************************)
(* C5: the entry of a module is removed from the global index before the   *)
(* module is destroyed, and no call of getJITFunctionByAddress reads the   *)
(* maps of a module that has been destroyed.                               *)
(***************************************************************************)
C5_NoReaderOfDestroyedModule ==
    /\ \A m \in ModuleIds : Unloaded(m) =>
            \A k \in DOMAIN addressToModuleMap : addressToModuleMap[k] # m
    /\ \A t \in Threads : tpc[t] = "readMaps" => MembersAlive(op[t].m)

\* the first half of C5 alone
C5_EntryRemovedBeforeDestruction ==
    \A m \in ModuleIds : Unloaded(m) =>
        \A k \in DOMAIN addressToModuleMap : addressToModuleMap[k] # m

(***************************************************************************)
(* For stating the properties of the image.                                *)
(***************************************************************************)
\* the addresses of a section's reserved pages
SectionStart(sn) == memoryManager[sn].baseAddress

SectionEnd(sn) == memoryManager[sn].baseAddress + memoryManager[sn].numPages * ImagePageSize

\* reserveAllocationSpace has just returned
JustReserved == ipc = "loadObject" /\ icall.name = "reserveAllocationSpace"

\* the bytes requested of reserveAllocationSpace for each section
RequestedBytes ==
    [codeSection |-> icall.args[1] + (IF useWindowsSEH THEN 32 ELSE 0),
     readOnlySection |-> icall.args[2],
     readWriteSection |-> icall.args[3]]

(***************************************************************************)
(* C11: after reserveAllocationSpace(code, ro, rw) with a non-zero total,  *)
(* the code, read-only and read-write sections are pairwise disjoint and   *)
(* contiguous in that order in one reservation that starts at the image    *)
(* base, each base is page aligned, and each section's pages hold at least *)
(* the bytes requested for it (the code bytes plus 32 in the SEH build).   *)
(***************************************************************************)
C11_ImageLayout ==
    (JustReserved /\ icall.args[1] + icall.args[2] + icall.args[3] > 0) =>
        /\ SectionStart("codeSection") = memoryManager.imageBaseAddress
        /\ SectionStart("readOnlySection") = SectionEnd("codeSection")
        /\ SectionStart("readWriteSection") = SectionEnd("readOnlySection")
        /\ SectionEnd("readWriteSection") =
                memoryManager.imageBaseAddress
                    + memoryManager.numAllocatedImagePages * ImagePageSize
        /\ \A sn \in SectionNames :
                /\ SectionStart(sn) % ImagePageSize = 0
                /\ SectionEnd(sn) - SectionStart(sn) >= RequestedBytes[sn]
        /\ \A sn, tn \in SectionNames :
                sn # tn => (SectionEnd(sn) <= SectionStart(tn)
                                \/ SectionEnd(tn) <= SectionStart(sn))
        /\ \A p \in ImagePages :
                (pageAccess[p] # "free") <=>
                    /\ PageOf(memoryManager.imageBaseAddress) <= p
                    /\ p < PageOf(memoryManager.imageBaseAddress)
                                + memoryManager.numAllocatedImagePages

\* a reservation of three sections none of which fills its pages, in the
\* SEH build
C11_Witness ==
    /\ JustReserved
    /\ useWindowsSEH
    /\ icall.args = <<ImagePageSize + 1, 1, ImagePageSize + 1>>
    /\ memoryManager.codeSection.numPages = 3
    /\ memoryManager.readOnlySection.numPages = 1
    /\ memoryManager.readWriteSection.numPages = 2

\* the pages of a section, and of the image
SectionPages(sn) ==
    { p \in ImagePages :
        /\ PageOf(memoryManager[sn].baseAddress) <= p
        /\ p < PageOf(memoryManager[sn].baseAddress) + memoryManager[sn].numPages }

ImagePagesOf(mm) ==
    { p \in ImagePages :
        /\ PageOf(mm.imageBaseAddress) <= p
        /\ p < PageOf(mm.imageBaseAddress) + mm.numAllocatedImagePages }

\* the image is reserved and reallyFinalizeMemory has not run
BeforeFinalization ==
    ipc \in {"loadObject", "registerEHFrames", "objectLoaded", "postProcessed"}

(***************************************************************************)
(* C12: from the reservation until reallyFinalizeMemory every page of the  *)
(* image is read-write; from then until the image is destroyed every page  *)
(* of the code section is execute, every page of the read-only section is  *)
(* read-only and every page of the read-write section is read-write.       *)
(***************************************************************************)
C12_Permissions ==
    /\ BeforeFinalization =>
            \A p \in ImagePagesOf(memoryManager) : pageAccess[p] = "readWrite"
    /\ ipc = "finalized" =>
            /\ \A p \in SectionPages("codeSection") : pageAccess[p] = "execute"
            /\ \A p \in SectionPages("readOnlySection") : pageAccess[p] = "readOnly"
            /\ \A p \in SectionPages("readWriteSection") : pageAccess[p] = "readWrite"
            /\ ImagePagesOf(memoryManager) =
                    UNION { SectionPages(sn) : sn \in SectionNames }

\* a finalized image with pages in all three sections
C12_Witness ==
    /\ ipc = "finalized"
    /\ \A sn \in SectionNames : SectionPages(sn) # {}
    /\ memoryManager.isFinalized

\* how often a range occurs in a sequence of ranges
Occurrences(ranges, r) == Cardinality({ i \in DOMAIN ranges : ranges[i] = r })

RangesOf(ranges) == { ranges[i] : i \in DOMAIN ranges }

(***************************************************************************)
(* C13: when the image has been destroyed, every unwind range registered   *)
(* with the platform for it (through registerEHFrames, or the .pdata range *)
(* on the SEH path) has been deregistered, each exactly once.              *)
(***************************************************************************)
C13_UnwindDeregistered ==
    ipc = "destroyed" =>
        \A r \in RangesOf(ehFrames.registered) \cup RangesOf(ehFrames.deregistered) :
            /\ Occurrences(ehFrames.deregistered, r) = Occurrences(ehFrames.registered, r)
            /\ Occurrences(ehFrames.deregistered, r) = 1

\* the case of C13 that holds: one unwind section, not the SEH build
C13_SingleEHFrameDeregistered ==
    (ipc = "destroyed" /\ ~useWindowsSEH /\ Len(ehFrames.registered) <= 1) =>
        ehFrames.deregistered = ehFrames.registered

\* the memory manager of module m has been deleted
MemoryManagerDeleted(m) ==
    \/ modules[m].status = "destroyed"
    \/ \E t \in Threads : tpc[t] = "destroyMembers" /\ op[t].m = m

(***************************************************************************)
(* C14: destroying an image decommits its pages and keeps them reserved:   *)
(* after any sequence of loads and unloads the pages of a destroyed image  *)
(* are still reserved and not committed, and no other image, loaded before *)
(* or after, has any of them.                                              *)
(***************************************************************************)
C14_DestroyKeepsReservation ==
    \A m \in ModuleIds : MemoryManagerDeleted(m) =>
        /\ ~modules[m].committed
        /\ PagesOfModule(modules[m]) \subseteq reserved
        /\ \A n \in ModuleIds \ {m} :
                PagesOfModule(modules[n]) \cap PagesOfModule(modules[m]) = {}

\* a module with pages is loaded beside the pages of an unloaded module
C14_Witness ==
    \E m, n \in ModuleIds :
        /\ m < n
        /\ modules[m].status = "destroyed"
        /\ PagesOfModule(modules[m]) # {}
        /\ Loaded(n)
        /\ PagesOfModule(modules[n]) # {}

\* the modules the global index refers to
IndexedModules == { addressToModuleMap[k] : k \in DOMAIN addressToModuleMap }

\* a load has failed in this step
LoadFails == \E m \in ModuleIds : modules[m].status # "failed" /\ modules'[m].status = "failed"

(***************************************************************************)
(* C15: a load whose object refers to a symbol that is neither in the      *)
(* binding table nor a runtime helper fails, the global index is after the *)
(* failure exactly as it was before the load, and no module with such an   *)
(* object is ever in the index.                                            *)
(***************************************************************************)
C15_FailedLoadPublishesNothing ==
    /\ [](\A m \in IndexedModules :
            /\ modules[m].status # "failed"
            /\ \A name \in modules[m].imports : findSymbol(ImportedSymbolMap, name) # 0)
    /\ [][LoadFails => addressToModuleMap' = addressToModuleMap]_vars

\* a load has failed while another module is in the index
C15_Witness ==
    /\ \E m \in ModuleIds :
            modules[m].status = "failed" /\ "functionImport7" \in modules[m].imports
    /\ IndexedModules # {}
    /\ crashed

(***************************************************************************)
(* The byte streams.                                                       *)
(***************************************************************************)
\* the bytes of the output stream's buffer before the cursor
WrittenPrefix == SubSeq(out.bytes, 1, out.next)

\* C16: every advance(n) of the output stream returns the cursor held before
\* the call and moves the cursor forward by exactly n, the cursor never
\* passes the end of the buffer, the bytes written earlier survive every
\* growth of the buffer, and getBytes returns exactly the bytes written so
\* far, in order, as many as the sizes of the advances add up to.
C16_OutputSink ==
    /\ out.next <= Len(out.bytes)
    /\ cpc = "stream" => WrittenPrefix = written
    /\ scall.name = "advance" =>
        /\ scall.result = scall.before
        /\ out.next = scall.before + scall.numBytes
    /\ scall.name = "getBytes" =>
        /\ scall.result = written
        /\ Len(scall.result) = scall.before

\* getBytes has returned bytes written on both sides of a growth of the buffer
C16_Witness ==
    /\ scall.name = "getBytes"
    /\ Len(scall.result) >= 35
    /\ scall.result[1] = ClientByte(1)

\* C17: advance(n) of the input stream with at least n bytes remaining
\* returns the cursor and consumes exactly n bytes; advance(n) or peek(n)
\* with fewer than n bytes remaining fails with "expected data but found end
\* of stream" and leaves the cursor where it was; a successful peek(n)
\* does not move the cursor.
C17_InputSource ==
    /\ scall.name \in {"input advance", "peek"} =>
        IF scall.before + scall.numBytes <= Len(inp.data)
        THEN /\ scall.error = ErrNone
             /\ scall.result = scall.before
             /\ inp.next = (IF scall.name = "peek" THEN scall.before
                            ELSE scall.before + scall.numBytes)
        ELSE /\ scall.error = ErrEndOfStream
             /\ inp.next = scall.before
    /\ inp.next <= Len(inp.data)

\* an advance has failed for lack of data after an earlier one consumed some
C17_Witness ==
    /\ scall.name = "input advance"
    /\ scall.error = ErrEndOfStream
    /\ scall.before > 0
    /\ scall.before + scall.numBytes > Len(inp.data)

\* a peek has succeeded in the middle of the data
C17_PeekWitness ==
    /\ scall.name = "peek"
    /\ scall.error = ErrNone
    /\ scall.before > 0
    /\ scall.numBytes > 0

(***************************************************************************)
(* The binding table of loadModule.                                        *)
(***************************************************************************)
\* the pairs of name and value a vector of bindings stands for
VectorPairs(baseName, values) ==
    { <<getExternalName(baseName, i), values[i + 1]>> : i \in 0..(Len(values) - 1) }

\* the pairs of name and value the arguments of the call prescribe
PrescribedPairs(args) ==
    { <<name, args.wavmIntrinsicsExportMap[name]>> :
        name \in DOMAIN args.wavmIntrinsicsExportMap }
    \cup VectorPairs("functionImport", args.functionImports)
    \cup VectorPairs("tableOffset",
            [i \in 1..Len(args.tables) |->
                RuntimeLayout.tableBases + RuntimeLayout.pointerBytes * args.tables[i].id])
    \cup VectorPairs("memoryOffset",
            [i \in 1..Len(args.memories) |->
                RuntimeLayout.memoryBases + RuntimeLayout.pointerBytes * args.memories[i].id])
    \cup VectorPairs("global",
            [i \in 1..Len(args.globals) |->
                IF args.globals[i].isMutable
                THEN RuntimeLayout.globalData + args.globals[i].mutableDataOffset
                ELSE args.globals[i].immutableValuePointer])
    \cup VectorPairs("exceptionType", args.exceptionTypes)

NumBindings(args) ==
    Cardinality(DOMAIN args.wavmIntrinsicsExportMap) + Len(args.functionImports)
    + Len(args.tables) + Len(args.memories) + Len(args.globals)
    + Len(args.exceptionTypes)

\* two of the entries have the same name
NameCollision(args) ==
    Cardinality({ pair[1] : pair \in PrescribedPairs(args) }) < NumBindings(args)

PairsOf(map) == { <<name, map[name]>> : name \in DOMAIN map }

\* C18: the binding table loadModule passes to the loader has exactly one
\* entry per intrinsic, function import, table, memory, global and exception
\* type, under the prescribed name and with the prescribed value; when two
\* entries have the same name the load fails; and when the load succeeds
\* outFunctionDefs holds, in index order, the function named "functionDef"+i
\* for every i below numFunctionDefs.
C18_BindingContract ==
    /\ (bpc \notin {"off", "bind"} /\ ~NameCollision(bind.args)) =>
        /\ PairsOf(bind.importedSymbolMap) = PrescribedPairs(bind.args)
        /\ Cardinality(DOMAIN bind.importedSymbolMap) = NumBindings(bind.args)
    /\ (bpc # "off" /\ NameCollision(bind.args)) =>
        /\ bpc \in {"bind", "fatal"}
        /\ bind.jitModule = NoJITModule
        /\ bind.outFunctionDefs = <<>>
    /\ bpc = "done" =>
        /\ Len(bind.outFunctionDefs) = bind.args.numFunctionDefs
        /\ \A i \in 0..(bind.args.numFunctionDefs - 1) :
            /\ bind.outFunctionDefs[i + 1] \in 1..Len(bind.jitModule.functions)
            /\ bind.jitModule.functions[bind.outFunctionDefs[i + 1]].name
                = getExternalName("functionDef", i)

\* a load has succeeded with bindings of every kind, a mutable and an
\* immutable global, and two function definitions that the object lists in
\* the other order
C18_Witness ==
    /\ bpc = "done"
    /\ Len(bind.args.functionImports) > 0 /\ Len(bind.args.tables) > 0
    /\ Len(bind.args.memories) > 0 /\ Len(bind.args.exceptionTypes) > 0
    /\ DOMAIN bind.args.wavmIntrinsicsExportMap # {}
    /\ \E i, j \in 1..Len(bind.args.globals) :
        bind.args.globals[i].isMutable /\ ~bind.args.globals[j].isMutable
    /\ bind.outFunctionDefs = <<2, 1>>

\* a load has failed because an intrinsic has the name of a generated binding
C18_CollisionWitness ==
    /\ bpc = "fatal"
    /\ NameCollision(bind.args)
    /\ "functionImport0" \in DOMAIN bind.args.wavmIntrinsicsExportMap
    /\ Len(bind.args.functionImports) > 0

(***************************************************************************)
(* The keys of the global index.                                           *)
(***************************************************************************)
\* module m is between the end of its constructor and the start of its unload
Published(m) == modules[m].status = "loaded"

\* module m was not inserted yet, failed to load, or its destructor has
\* passed the erase
Unpublished(m) ==
    \/ modules[m].status \in {"unborn", "loading", "failed", "destroyed"}
    \/ /\ modules[m].status = "unloading"
       /\ \E t \in Threads : op[t].m = m /\ tpc[t] = "destroyMembers"

\* C19: the keys of the global index are unique, each key is the end address
\* (image base + image bytes) of exactly one module, and the key of a module
\* is in the index exactly from the end of its load to the start of its
\* unload, also when its image has no page.
C19_IndexKeyInvariant ==
    ~crashed =>
        /\ \A k \in DOMAIN addressToModuleMap :
            /\ ImageEnd(modules[addressToModuleMap[k]]) = k
            /\ Cardinality({ m \in ModuleIds :
                    ~Unpublished(m) /\ ImageEnd(modules[m]) = k }) = 1
        /\ \A m \in ModuleIds :
            /\ Published(m) =>
                /\ ImageEnd(modules[m]) \in DOMAIN addressToModuleMap
                /\ addressToModuleMap[ImageEnd(modules[m])] = m
            /\ Unpublished(m) => m \notin IndexedModules

\* the modules that were constructed with an image of no page
ZeroPageModules ==
    { m \in ModuleIds :
        modules[m].status # "unborn" /\ modules[m].numAllocatedImagePages = 0 }

\* the same statement as long as at most one module without pages was loaded
C19_KeysOfImagesWithPages ==
    Cardinality(ZeroPageModules) <= 1 => C19_IndexKeyInvariant

(***************************************************************************)
(* The lock and the maps of a module during a lookup.                      *)
(***************************************************************************)
\* the function vector and the address map of module m (a function carries
\* its name)
MapsOf(m) == <<modules[m].functions, modules[m].addressToFunctionMap>>

\* the lookups hold the mutex exactly while they search the index
LookupLocksOnlySearch ==
    \A t \in Threads :
        /\ tpc[t] = "search" => mutex = t
        /\ tpc[t] \in {"readMaps", "return"} => mutex # t

\* the step that inserts module m, every step while it is in the index, and
\* the step that starts its unload leave its maps as the constructor's loop
\* built them
MapsFrozen ==
    \A m \in ModuleIds :
        (/\ modules[m].status \in {"loading", "loaded"}
         /\ modules'[m].status \in {"loaded", "unloading"})
            => MapsOf(m)' = MapsOf(m)

\* C20: a lookup holds the index mutex only while it searches the global
\* index and has released it before it reads the address map of the module
\* it selected; the maps of a module are built before the module is inserted
\* into the global index and do not change from the insertion to the start
\* of the unload.
C20_LookupReadsUnlockedFrozenMaps ==
    /\ []LookupLocksOnlySearch
    /\ [][MapsFrozen]_vars

\* a lookup is about to read the maps of a loaded module with functions, and
\* nobody holds the mutex
C20_Witness ==
    \E t \in Threads :
        /\ tpc[t] = "readMaps"
        /\ mutex = NoThread
        /\ modules[op[t].m].status = "loaded"
        /\ modules[op[t].m].functions # <<>>

(***************************************************************************)
(* The order of the steps of an unload.                                    *)
(***************************************************************************)
\* the per-function records of module m (functions and the two maps) have
\* been deleted
FunctionRecordsDeleted(m) == modules[m].status = "destroyed"

\* C21: an unload removes the module from the global index, then deletes the
\* per-function records, then deregisters the unwind info and destroys
\* (decommits) the image: the image of a module is not destroyed before its
\* function records are deleted, and the records are not deleted before the
\* module has left the index.
C21_DestructionOrder ==
    ~crashed =>
        \A m \in ModuleIds :
            /\ MemoryManagerDeleted(m) => FunctionRecordsDeleted(m)
            /\ FunctionRecordsDeleted(m) => m \notin IndexedModules

\* the order of the code: the index entry, then the memory manager (unwind
\* info, image), then the function records
C21_RecordsDeletedLast ==
    ~crashed =>
        \A m \in ModuleIds :
            /\ FunctionRecordsDeleted(m) => MemoryManagerDeleted(m)
            /\ MemoryManagerDeleted(m) => (~modules[m].committed /\ m \notin IndexedModules)

(***************************************************************************)
(* The order of the steps of a load.                                       *)
(***************************************************************************)
\* the step is a call of the named function on the memory manager
CallStep(name) == icall'.seq # icall.seq /\ icall'.name = name

\* some page gets an access other than the read-write of a committed page
PermissionStep ==
    \E p \in ImagePages :
        pageAccess'[p] # pageAccess[p] /\ pageAccess'[p] \in {"execute", "readOnly"}

\* C22: in every load the final page permissions are applied exactly once,
\* after the object was loaded and relocated and the unwind post-processing
\* (with the allocation of the SEH trampoline) is complete; finalizeMemory
\* changes no permission and does not mark the image finalized; nothing is
\* allocated from a section once the image is finalized; the functions are
\* enumerated and the module is inserted into the global index only after
\* the finalization.
C22_ConstructionOrder ==
    [][/\ CallStep("reallyFinalizeMemory") =>
            (ipc = "postProcessed" /\ ~memoryManager.isFinalized
             /\ memoryManager'.isFinalized)
       /\ PermissionStep => CallStep("reallyFinalizeMemory")
       /\ memoryManager'.isFinalized # memoryManager.isFinalized =>
            CallStep("reallyFinalizeMemory")
       /\ CallStep("finalizeMemory") =>
            (pageAccess' = pageAccess /\ ~memoryManager'.isFinalized)
       /\ (CallStep("allocateCodeSection") \/ CallStep("allocateDataSection")) =>
            ~memoryManager.isFinalized
       /\ CallStep("addressToModuleMap.emplace") =>
            (memoryManager.isFinalized /\ ipc = "finalized")]_vars

\* a module of the SEH build was inserted into the index after its
\* trampoline was allocated and its three sections got their access
C22_Witness ==
    /\ icall.name = "addressToModuleMap.emplace"
    /\ useWindowsSEH
    /\ memoryManager.isFinalized
    /\ memoryManager.codeSection.numCommittedBytes >= 16
    /\ \A sn \in SectionNames : memoryManager[sn].numPages > 0

(***************************************************************************)
(* The sections of an image and the allocations from them.                 *)
(***************************************************************************)
AllocationCalls == {"allocateCodeSection", "allocateDataSection"}

\* the section the last call allocated from
SectionOfCall ==
    IF icall.name = "allocateCodeSection" THEN "codeSection"
    ELSE IF icall.args[3] THEN "readOnlySection" ELSE "readWriteSection"

\* the last call was an allocation and it returned
AllocationReturned == icall.name \in AllocationCalls /\ ipc # "fatal"

SectionLimit(sn) == memoryManager[sn].numPages * ImagePageSize

\* the pointer the last call returned is aligned as requested and its bytes
\* lie in the section the call allocated from
ReturnedPointerInSection ==
    LET sn == SectionOfCall
    IN  /\ icall.result % icall.args[2] = 0
        /\ memoryManager[sn].baseAddress <= icall.result
        /\ icall.result + icall.args[1] <= memoryManager[sn].baseAddress + SectionLimit(sn)

CommittedWithinReserved ==
    \A sn \in SectionNames : memoryManager[sn].numCommittedBytes <= SectionLimit(sn)

\* C23: after any sequence of allocateCodeSection / allocateDataSection
\* calls that return, the committed bytes of each section are at most its
\* reserved pages times the page size, every returned pointer is a multiple
\* of the requested alignment and lies in its own section, and an
\* allocation that pushes the committed bytes past the reserved size is
\* fatal.
C23_SectionInvariant ==
    /\ ipc \in {"loadObject", "registerEHFrames", "objectLoaded", "postProcessed",
                "finalized"} => CommittedWithinReserved
    /\ AllocationReturned => ReturnedPointerInSection
    /\ (icall.name \in AllocationCalls /\ ~CommittedWithinReserved) => ipc = "fatal"

\* the same statement for the alignments that do not exceed the page size
C23_InvariantUpToPageAlignment ==
    (icall.name \in AllocationCalls => icall.args[2] <= ImagePageSize)
        => C23_SectionInvariant

\* the least multiple of alignment that is at least size
RoundUp(size, alignment) ==
    CHOOSE r \in size..(size + alignment - 1) : r % alignment = 0

\* the section the call of this step allocates from
SectionOfStep ==
    IF icall'.name = "allocateCodeSection" THEN "codeSection"
    ELSE IF icall'.args[3] THEN "readOnlySection" ELSE "readWriteSection"

\* the step is an allocation that returns
AllocationStep ==
    /\ CallStep("allocateCodeSection") \/ CallStep("allocateDataSection")
    /\ ipc' # "fatal"

\* C24: allocate(n, align) on a section whose committed-bytes cursor is c
\* returns section base + roundup(c, align) and records the new cursor
\* roundup(c, align) + n.
C24_CursorRule ==
    [][AllocationStep =>
        LET section == memoryManager[SectionOfStep]
            c == section.numCommittedBytes
            n == icall'.args[1]
            alignment == icall'.args[2]
        IN  /\ icall'.result = section.baseAddress + RoundUp(c, alignment)
            /\ memoryManager'[SectionOfStep].numCommittedBytes
                   = RoundUp(c, alignment) + n]_vars

\* the rule of the code: the new cursor is roundup(c, align) plus the size
\* rounded up to the alignment as well
C24_CursorRuleRoundedSize ==
    [][AllocationStep =>
        LET section == memoryManager[SectionOfStep]
            c == section.numCommittedBytes
            n == icall'.args[1]
            alignment == icall'.args[2]
        IN  /\ icall'.result = section.baseAddress + RoundUp(c, alignment)
            /\ memoryManager'[SectionOfStep].numCommittedBytes
                   = RoundUp(c, alignment) + RoundUp(n, alignment)
            /\ memoryManager'[SectionOfStep].baseAddress = section.baseAddress
            /\ memoryManager'[SectionOfStep].numPages = section.numPages]_vars

(***************************************************************************)
(* A load that fails.                                                      *)
(***************************************************************************)
CommittedAccess == {"readWrite", "readOnly", "execute"}

\* the unwind ranges that are registered with the platform and were not
\* deregistered
RemainingRegistrations ==
    { r \in RangesOf(ehFrames.registered) :
        Occurrences(ehFrames.deregistered, r) < Occurrences(ehFrames.registered, r) }

\* C25: when the construction of a module has failed (allocation failure,
\* overflow of a section's reservation, loader error, unresolved symbol) the
\* partially allocated image is released: none of its pages is committed and
\* none of its unwind ranges is registered.
C25_FailedLoadReleasesImage ==
    ipc = "fatal" =>
        /\ \A p \in ImagePages : pageAccess[p] \notin CommittedAccess
        /\ RemainingRegistrations = {}

\* the failures that leave nothing behind: the pages could not be allocated
\* or could not be committed
C25_FailedReservationLeavesNothing ==
    (ipc = "fatal" /\ icall.name = "reserveAllocationSpace") =>
        /\ \A p \in ImagePages : pageAccess[p] \notin CommittedAccess
        /\ RemainingRegistrations = {}

(***************************************************************************)
(* The resolution of the symbols of the object.                            *)
(***************************************************************************)
\* the object loader has asked the resolver for the symbols of the object
SymbolsResolved ==
    \/ bpc \in {"collect", "done", "undefined"}
    \/ bpc = "fatal" /\ ~NameCollision(bind.args)

\* C26: the resolver returns the value of the binding table for every name
\* that is in the table, also when a runtime helper has the name; for other
\* names the runtime helper of that name if there is one; otherwise the name
\* is unresolved.  A binding of zero is not a resolved address: the symbol
\* stays unresolved and the load fails.
C26_ResolutionOrder ==
    SymbolsResolved =>
        /\ DOMAIN bind.resolved = bind.args.object.imports
        /\ \A name \in DOMAIN bind.resolved :
            /\ name \in DOMAIN bind.importedSymbolMap =>
                    bind.resolved[name] = bind.importedSymbolMap[name]
            /\ (name \notin DOMAIN bind.importedSymbolMap
                /\ name \in DOMAIN RuntimeHelpers) =>
                    bind.resolved[name] = RuntimeHelpers[name]
            /\ (name \notin DOMAIN bind.importedSymbolMap
                /\ name \notin DOMAIN RuntimeHelpers) =>
                    (bind.resolved[name] = 0 /\ bpc = "fatal")
            /\ (name \in DOMAIN bind.importedSymbolMap
                /\ bind.importedSymbolMap[name] = 0) => bpc = "fatal"

\* a load has succeeded with a symbol bound by the table under the name of a
\* runtime helper
C26_Witness ==
    /\ bpc = "done"
    /\ "wavmIntrinsicTrap" \in DOMAIN bind.resolved
    /\ bind.resolved["wavmIntrinsicTrap"] = 77
    /\ RuntimeHelpers["wavmIntrinsicTrap"] # 77

\* a load has failed on a symbol that the table binds to zero
C26_ZeroBindingWitness ==
    /\ bpc = "fatal"
    /\ "functionImport7" \in DOMAIN bind.resolved
    /\ "functionImport7" \in DOMAIN bind.importedSymbolMap
    /\ bind.resolved["functionImport7"] = 0
    /\ bind.resolved["functionImport0"] # 0

\* a load has succeeded with a symbol resolved by a runtime helper
C26_HelperWitness ==
    /\ bpc = "done"
    /\ "wavmIntrinsicTrap" \in DOMAIN bind.resolved
    /\ "wavmIntrinsicTrap" \notin DOMAIN bind.importedSymbolMap
    /\ bind.resolved["wavmIntrinsicTrap"] = RuntimeHelpers["wavmIntrinsicTrap"]

(***************************************************************************)
(* The maps of a loaded module.                                            *)
(***************************************************************************)
\* the keys of the address map of module m under which function f is found
AddressKeysOf(m, f) ==
    { k \in DOMAIN modules[m].addressToFunctionMap :
        modules[m].addressToFunctionMap[k] = f }

\* C27: in a loaded module every function enumerated from the object is in
\* the function vector once, under its own name, and is in the address map
\* exactly once, under its end address (base + length), also when two
\* functions end at the same address or a function has length zero.
C27_LoadedModuleInvariant ==
    \A m \in ModuleIds : Loaded(m) =>
        LET functions == modules[m].functions
        IN  /\ \A f, g \in DOMAIN functions :
                functions[f].name = functions[g].name => f = g
            /\ \A f \in DOMAIN functions :
                AddressKeysOf(m, f) = {functions[f].baseAddress + functions[f].numBytes}

\* two functions of module m end at the same address
SharedEndAddress(m) ==
    \E f, g \in DOMAIN modules[m].functions :
        /\ f # g
        /\ modules[m].functions[f].baseAddress + modules[m].functions[f].numBytes
            = modules[m].functions[g].baseAddress + modules[m].functions[g].numBytes

\* the same statement for the modules in which no two functions share an
\* end address
C27_InvariantWithoutSharedEnd ==
    \A m \in ModuleIds : (Loaded(m) /\ ~SharedEndAddress(m)) =>
        \A f \in DOMAIN modules[m].functions :
            AddressKeysOf(m, f) =
                {modules[m].functions[f].baseAddress + modules[m].functions[f].numBytes}

(***************************************************************************)
(* The growth of the buffer of the output stream.                          *)
(***************************************************************************)
\* 32 grown k times by the factor 7/5
RECURSIVE Grown(_)
Grown(k) == IF k = 0 THEN 32 ELSE (Grown(k - 1) * 7) \div 5

\* the number of times 32 is grown by the factor 7/5 before it reaches n
RECURSIVE GrowthSteps(_, _)
GrowthSteps(n, k) == IF Grown(k) >= n THEN k ELSE GrowthSteps(n, k + 1)

\* the step extends the buffer of the output stream
ExtensionStep == extensions' = extensions + 1

Disjoint(a, b) ==
    \/ a.numBytes = 0
    \/ b.numBytes = 0
    \/ a.address + a.numBytes <= b.address
    \/ b.address + b.numBytes <= a.address

\* C29: the byte ranges [p, p + n) that the calls of allocateCodeSection and
\* allocateDataSection on one image have returned are pairwise disjoint,
\* within a section and across the three sections, whatever the sizes and
\* alignments of the calls that did not end in the fatal error.
C29_AllocationsDisjoint ==
    \A i, j \in DOMAIN allocations :
        i # j => Disjoint(allocations[i], allocations[j])

\* three allocations of some bytes have returned, two of them from the same
\* section with an alignment between them, and the image is finalized
C29_Witness ==
    /\ ipc = "finalized"
    /\ Len(allocations) >= 3
    /\ \A i \in DOMAIN allocations : allocations[i].numBytes > 0
    /\ \E i, j \in DOMAIN allocations :
        /\ i < j
        /\ allocations[i].address < memoryManager.readOnlySection.baseAddress
        /\ allocations[j].address < memoryManager.readOnlySection.baseAddress
        /\ allocations[j].address > allocations[i].address + allocations[i].numBytes
    /\ \E i \in DOMAIN allocations :
        allocations[i].address >= memoryManager.readOnlySection.baseAddress

====
